---- MODULE Spec2Model ----
(***************************************************************************)
(* A model of the voxel world: chunk storage and coordinate mapping        *)
(* (game/chunk.rs, game/world.rs), the face-culling mesher                 *)
(* (rendering/mesh.rs), the texture atlas (rendering/texture_atlas.rs),    *)
(* the chunk render cache (rendering/chunk_renderer.rs), the voxel raycast *)
(* (game/raycast.rs), the player's collision step (game/player.rs) and the *)
(* block selection and placement and the frame step of lib.rs.             *)
(*                                                                         *)
(* World as found in game/world.rs keeps a chunk map and a map of mesh     *)
(* buffers built at load time.  ChunkRenderer::update drains               *)
(* world.take_dirty_chunks(), which game/world.rs does not define: the     *)
(* dirty set, its marking by load_chunk and set_voxel and its drain are    *)
(* modelled from the specification (mark_dirty, load_chunk_dirty,          *)
(* set_voxel_dirty, dirty_orders, take_dirty_chunks); World_load_chunk and *)
(* World_set_voxel are the functions of game/world.rs as they stand.       *)
(***************************************************************************)
EXTENDS Integers, Sequences, FiniteSets, TLC

VARIABLES world, chunk_renderer, last, ops, written, pending_loads, pending_writes,
          mesher, atlas, quad, ray, player, state

vars == <<world, chunk_renderer, last, ops, written, pending_loads, pending_writes,
          mesher, atlas, quad, ray, player, state>>

(***************************************************************************)
(* Bounds of the model.                                                    *)
(***************************************************************************)
\* the number of operations of one run of Spec
MaxOps == 4

\* the number of operations of one run of SpecUnload
MaxOpsUnload == 5

\* SpecWide draws world coordinates from -MaxWide..MaxWide
MaxWide == 17

\* the number of edits of one run of SpecMesh
MaxMeshOps == 4

\* the number of tile lookups of one run of SpecAtlas
MaxLookups == 2

\* SpecRay draws maximum distances from 4.0 up to MaxRayRange
MaxRayRange == 6

\* the number of Player::update steps of one run of SpecPlayer
MaxPlayerSteps == 2

\* the number of selections, placements and breaks of one run of SpecPlace
MaxPlaceOps == 3

\* the number of faces one run of SpecFaces adds
MaxFaces == 1

\* the number of steps and mouse presses of one run of SpecGame
MaxGameOps == 3

(***************************************************************************)
(* game/chunk.rs                                                           *)
(***************************************************************************)
CHUNK_SIZE == 16

CHUNK_VOLUME == CHUNK_SIZE * CHUNK_SIZE * CHUNK_SIZE

\* usize::MAX, the value 0usize.wrapping_sub(1) yields.  TLC's integers are
\* 32 bits wide, so the model's usize is 31 bits wide; the mesher only
\* compares the wrapped value with CHUNK_SIZE
USIZE_MAX == 2147483647

VoxelType == {"Air", "Grass", "Dirt", "Stone"}

\* Option<T>: None is the empty sequence, Some(v) the sequence of v alone
None == << >>

Some(v) == <<v>>

\* a flat index that adds the three coordinates' strides without CHUNK_SIZE for y
get_chunk_index_no_stride(x, y, z) == x + y + z * CHUNK_SIZE * CHUNK_SIZE

get_chunk_index(x, y, z) == x + y * CHUNK_SIZE + z * CHUNK_SIZE * CHUNK_SIZE

ChunkPos_new(x, y, z) == [x |-> x, y |-> y, z |-> z]

\* Chunk::new: every cell Air
Chunk_new == [i \in 0..(CHUNK_VOLUME - 1) |-> "Air"]

Chunk_set_voxel(chunk, x, y, z, voxel_type) ==
    [chunk EXCEPT ![get_chunk_index(x, y, z)] = voxel_type]

Chunk_get_voxel(chunk, x, y, z) == Some(chunk[get_chunk_index(x, y, z)])

(***************************************************************************)
(* rendering/texture_atlas.rs and VoxelType::texture_coords of             *)
(* game/chunk.rs.  A tile is its (column, row) in the atlas, counted in    *)
(* tiles; the floats of the source are 0.0, 1.0 and 2.0.                   *)
(***************************************************************************)
FaceDirection == {"North", "South", "East", "West", "Top", "Bottom"}

\* TextureAtlas::get_tile_coords with the side tile on every face of Grass
get_tile_coords_side_only(voxel, face) ==
    CASE voxel = "Air"   -> <<0, 0>>
      [] voxel = "Stone" -> <<2, 0>>
      [] voxel = "Dirt"  -> <<1, 0>>
      [] voxel = "Grass" -> <<0, 0>>

get_tile_coords(voxel, face) ==
    CASE voxel = "Air"   -> <<0, 0>>
      [] voxel = "Stone" -> <<2, 0>>
      [] voxel = "Dirt"  -> <<1, 0>>
      [] voxel = "Grass" -> CASE face = "Top"    -> <<0, 1>>
                              [] face = "Bottom" -> <<1, 0>>
                              [] OTHER           -> <<0, 0>>

texture_coords(voxel, face) ==
    CASE voxel = "Air"   -> <<0, 0>>
      [] voxel = "Stone" -> <<2, 0>>
      [] voxel = "Dirt"  -> <<1, 0>>
      [] voxel = "Grass" -> CASE face = "Top"    -> <<0, 1>>
                              [] face = "Bottom" -> <<1, 0>>
                              [] OTHER           -> <<0, 0>>

(***************************************************************************)
(* rendering/mesh.rs.  ChunkMesher::generate_mesh is a function of the     *)
(* chunk and its position, so a mesh is denoted by the pair it was         *)
(* generated from; its faces (six vertices each, add_face) are computed    *)
(* from that pair by mesh_faces, as generate_mesh, add_voxel_faces and     *)
(* should_render_face compute them.                                        *)
(***************************************************************************)
Local == 0..(CHUNK_SIZE - 1)

\* FaceDirection::normal
FaceDirection_normal(direction) ==
    CASE direction = "North"  -> <<0, 0, 1>>
      [] direction = "South"  -> <<0, 0, -1>>
      [] direction = "East"   -> <<1, 0, 0>>
      [] direction = "West"   -> <<-1, 0, 0>>
      [] direction = "Top"    -> <<0, 1, 0>>
      [] direction = "Bottom" -> <<0, -1, 0>>

\* usize::saturating_sub, in the place of wrapping_sub
saturating_sub(a, b) == IF a >= b THEN a - b ELSE 0

\* usize::wrapping_sub
wrapping_sub(a, b) == IF a >= b THEN a - b ELSE USIZE_MAX - (b - a) + 1

\* the neighbour position add_voxel_faces pairs with each direction
neighbor_pos(x, y, z, direction) ==
    CASE direction = "North"  -> <<x, y, z + 1>>
      [] direction = "South"  -> <<x, y, wrapping_sub(z, 1)>>
      [] direction = "East"   -> <<x + 1, y, z>>
      [] direction = "West"   -> <<wrapping_sub(x, 1), y, z>>
      [] direction = "Top"    -> <<x, y + 1, z>>
      [] direction = "Bottom" -> <<x, wrapping_sub(y, 1), z>>

should_render_face(chunk, n) ==
    IF n[1] >= CHUNK_SIZE \/ n[2] >= CHUNK_SIZE \/ n[3] >= CHUNK_SIZE
    THEN TRUE
    ELSE LET v == Chunk_get_voxel(chunk, n[1], n[2], n[3])
         IN  v = Some("Air") \/ v = None

\* FaceDirection::vertices
FaceDirection_vertices(direction, x, y, z) ==
    CASE direction = "North" ->
           <<<<x, y, z + 1>>, <<x + 1, y, z + 1>>, <<x + 1, y + 1, z + 1>>,
             <<x, y, z + 1>>, <<x + 1, y + 1, z + 1>>, <<x, y + 1, z + 1>>>>
      [] direction = "South" ->
           <<<<x + 1, y, z>>, <<x, y, z>>, <<x, y + 1, z>>,
             <<x + 1, y, z>>, <<x, y + 1, z>>, <<x + 1, y + 1, z>>>>
      [] direction = "East" ->
           <<<<x + 1, y, z + 1>>, <<x + 1, y, z>>, <<x + 1, y + 1, z>>,
             <<x + 1, y, z + 1>>, <<x + 1, y + 1, z>>, <<x + 1, y + 1, z + 1>>>>
      [] direction = "West" ->
           <<<<x, y, z>>, <<x, y, z + 1>>, <<x, y + 1, z + 1>>,
             <<x, y, z>>, <<x, y + 1, z + 1>>, <<x, y + 1, z>>>>
      [] direction = "Top" ->
           <<<<x, y + 1, z + 1>>, <<x + 1, y + 1, z + 1>>, <<x + 1, y + 1, z>>,
             <<x, y + 1, z + 1>>, <<x + 1, y + 1, z>>, <<x, y + 1, z>>>>
      [] direction = "Bottom" ->
           <<<<x, y, z>>, <<x + 1, y, z>>, <<x + 1, y, z + 1>>,
             <<x, y, z>>, <<x + 1, y, z + 1>>, <<x, y, z + 1>>>>

\* TextureAtlas::get_uvs, in tiles: a sixteenth of the atlas is 1
get_uvs(voxel, direction) ==
    LET t == get_tile_coords(voxel, direction)
        u_min == t[1]
        u_max == t[1] + 1
        v_min == t[2]
        v_max == t[2] + 1
    IN  <<<<u_min, v_max>>, <<u_max, v_max>>, <<u_max, v_min>>,
          <<u_min, v_max>>, <<u_max, v_min>>, <<u_min, v_min>>>>

\* the vertices add_face pushes
add_face(x, y, z, direction, voxel) ==
    LET positions == FaceDirection_vertices(direction, x, y, z)
        uvs == get_uvs(voxel, direction)
        normal == FaceDirection_normal(direction)
    IN  [i \in 1..6 |-> [position |-> positions[i], tex_coords |-> uvs[i],
                         normal |-> normal]]

\* an offset of generate_mesh that leaves the chunk at the origin
mesh_offset_origin(chunk_coord) == 0

\* offset_x, offset_y, offset_z of generate_mesh
mesh_offset(chunk_coord) == chunk_coord * CHUNK_SIZE

\* the test of generate_mesh's loop body: the cell is present and not Air
meshed_cell(chunk, x, y, z) ==
    LET v == Chunk_get_voxel(chunk, x, y, z)
    IN  v # None /\ v # Some("Air")

\* the vertices generate_mesh pushes for one direction of the cell (x, y, z):
\* none if the cell is skipped or add_voxel_faces culls the face
voxel_face(chunk, chunk_pos, x, y, z, direction) ==
    IF /\ meshed_cell(chunk, x, y, z)
       /\ should_render_face(chunk, neighbor_pos(x, y, z, direction))
    THEN add_face(x + mesh_offset(chunk_pos.x), y + mesh_offset(chunk_pos.y),
                  z + mesh_offset(chunk_pos.z), direction,
                  Chunk_get_voxel(chunk, x, y, z)[1])
    ELSE << >>

generate_mesh(chunk, chunk_pos) == [chunk |-> chunk, chunk_pos |-> chunk_pos]

\* the faces add_voxel_faces adds, over the cells generate_mesh visits
mesh_faces(mesh) ==
    {f \in Local \X Local \X Local \X FaceDirection :
        /\ meshed_cell(mesh.chunk, f[1], f[2], f[3])
        /\ should_render_face(mesh.chunk, neighbor_pos(f[1], f[2], f[3], f[4]))}

vertex_count(mesh) == 6 * Cardinality(mesh_faces(mesh))

\* ChunkMesh::is_empty: no vertex was pushed.  For a chunk equal to
\* Chunk::new() the loop of generate_mesh skips every cell; for any other
\* chunk the loop is followed cell by cell
is_empty(mesh) ==
    IF mesh.chunk = Chunk_new THEN TRUE
    ELSE ~ \E z \in Local, y \in Local, x \in Local :
             /\ meshed_cell(mesh.chunk, x, y, z)
             /\ \E direction \in FaceDirection :
                    should_render_face(mesh.chunk, neighbor_pos(x, y, z, direction))

\* ChunkMeshBuffer::from_mesh without the is_empty test
from_mesh_always(mesh) == Some([mesh |-> mesh])

\* ChunkMeshBuffer::from_mesh: no buffer for an empty mesh; the buffer holds
\* the vertices of the mesh
from_mesh(mesh) ==
    IF is_empty(mesh) THEN None
    ELSE Some([mesh |-> mesh])

(***************************************************************************)
(* game/world.rs                                                           *)
(***************************************************************************)
\* i32::div_euclid and i32::rem_euclid by a positive divisor; div_trunc is
\* the operator / of i32, which rounds toward zero
div_trunc(a, n) == IF a >= 0 \/ (a \div n) * n = a THEN a \div n ELSE (a \div n) + 1

div_euclid(a, n) == a \div n

rem_euclid(a, n) == a % n

World_new == [chunks |-> << >>, chunk_buffers |-> << >>, dirty_chunks |-> {}]

Put(map, k, v) == [q \in DOMAIN map \cup {k} |-> IF q = k THEN v ELSE map[q]]

Remove(map, k) == [q \in DOMAIN map \ {k} |-> map[q]]

\* the terrain with its stone threshold one voxel higher
terrain_stone_at_minus_3(wy) ==
    IF wy <= -3 THEN "Stone"
    ELSE IF wy < 0 THEN "Dirt"
    ELSE IF wy = 0 THEN "Grass"
    ELSE "Air"

\* the layered terrain of generate_chunk, by world Y
terrain(wy) ==
    IF wy < -3 THEN "Stone"
    ELSE IF wy < 0 THEN "Dirt"
    ELSE IF wy = 0 THEN "Grass"
    ELSE "Air"

\* generate_chunk visits every (x, y, z) of the chunk once and stores the
\* voxel at get_chunk_index(x, y, z); cell i is reached with
\* y = (i \div CHUNK_SIZE) % CHUNK_SIZE
generate_chunk(pos) ==
    [i \in 0..(CHUNK_VOLUME - 1) |->
        terrain(pos.y * CHUNK_SIZE + ((i \div CHUNK_SIZE) % CHUNK_SIZE))]

\* load_chunk without its contains_key test
World_load_chunk_always(w, pos) ==
    LET chunk == generate_chunk(pos)
        chunk_buffer == from_mesh(generate_mesh(chunk, pos))
        buffers == IF chunk_buffer # None
                   THEN Put(w.chunk_buffers, pos, chunk_buffer[1])
                   ELSE w.chunk_buffers
    IN  [w EXCEPT !.chunks = Put(w.chunks, pos, chunk),
                  !.chunk_buffers = buffers]

World_load_chunk(w, pos) ==
    IF pos \notin DOMAIN w.chunks
    THEN LET chunk == generate_chunk(pos)
             chunk_buffer == from_mesh(generate_mesh(chunk, pos))
             buffers == IF chunk_buffer # None
                        THEN Put(w.chunk_buffers, pos, chunk_buffer[1])
                        ELSE w.chunk_buffers
         IN  [w EXCEPT !.chunks = Put(w.chunks, pos, chunk),
                       !.chunk_buffers = buffers]
    ELSE w

World_unload_chunk(w, pos) ==
    [w EXCEPT !.chunks = Remove(w.chunks, pos),
              !.chunk_buffers = Remove(w.chunk_buffers, pos)]

World_get_chunk(w, pos) ==
    IF pos \in DOMAIN w.chunks THEN Some(w.chunks[pos]) ELSE None

chunk_pos_of(wx, wy, wz) ==
    ChunkPos_new(div_euclid(wx, CHUNK_SIZE),
                 div_euclid(wy, CHUNK_SIZE),
                 div_euclid(wz, CHUNK_SIZE))

local_of(wx, wy, wz) ==
    <<rem_euclid(wx, CHUNK_SIZE), rem_euclid(wy, CHUNK_SIZE), rem_euclid(wz, CHUNK_SIZE)>>

\* get_voxel reporting a stored Air as absent
World_get_voxel_air_absent(w, wx, wy, wz) ==
    LET chunk_pos == chunk_pos_of(wx, wy, wz)
        l == local_of(wx, wy, wz)
    IN  IF chunk_pos \notin DOMAIN w.chunks THEN None
        ELSE IF Chunk_get_voxel(w.chunks[chunk_pos], l[1], l[2], l[3]) = Some("Air") THEN None
        ELSE Chunk_get_voxel(w.chunks[chunk_pos], l[1], l[2], l[3])

World_get_voxel(w, wx, wy, wz) ==
    LET chunk_pos == chunk_pos_of(wx, wy, wz)
        l == local_of(wx, wy, wz)
    IN  IF chunk_pos \notin DOMAIN w.chunks THEN None
        ELSE Chunk_get_voxel(w.chunks[chunk_pos], l[1], l[2], l[3])

\* set_voxel without its load_chunk call
World_set_voxel_no_load(w, wx, wy, wz, voxel) ==
    LET chunk_pos == chunk_pos_of(wx, wy, wz)
        l == local_of(wx, wy, wz)
    IN  IF chunk_pos \in DOMAIN w.chunks
        THEN [w EXCEPT !.chunks[chunk_pos] = Chunk_set_voxel(@, l[1], l[2], l[3], voxel)]
        ELSE w

World_set_voxel(w, wx, wy, wz, voxel) ==
    LET chunk_pos == chunk_pos_of(wx, wy, wz)
        l == local_of(wx, wy, wz)
        loaded == World_load_chunk(w, chunk_pos)
    IN  IF chunk_pos \in DOMAIN loaded.chunks
        THEN [loaded EXCEPT !.chunks[chunk_pos] =
                 Chunk_set_voxel(@, l[1], l[2], l[3], voxel)]
        ELSE loaded

(***************************************************************************)
(* game/raycast.rs.  An f32 is held in thousandths (FP is 1.0).  The       *)
(* origins, directions and distances drawn are multiples of 1/8 and the    *)
(* direction components are 0, 1/2 or 1 in size, so every sum and quotient *)
(* below is a multiple of 1/8 that f32 holds without rounding.             *)
(***************************************************************************)
FP == 1000

\* f32::MAX: above every finite value that occurs
F32_MAX == 1000000000

\* the iteration ceiling of raycast_voxel
RAY_STEPS == 100

\* f32 floor followed by `as i32`
floor_i32(a) == a \div FP

\* i32 `as f32`
as_f32(n) == n * FP

\* f32 division, exact on the values drawn
f32_div(a, b) ==
    IF b > 0 THEN (a * FP) \div b ELSE -((a * FP) \div (-b))

f32_abs(a) == IF a < 0 THEN -a ELSE a

\* f32 addition; f32::MAX absorbs a finite addend, and a sum with f32::MAX
\* is not read again before raycast_voxel leaves its loop
f32_add(a, b) == IF a = F32_MAX \/ b = F32_MAX THEN F32_MAX ELSE a + b

\* step_x, step_y, step_z
ray_step(d) == IF d > 0 THEN 1 ELSE -1

\* t_delta_x, t_delta_y, t_delta_z
ray_t_delta(d) == IF d # 0 THEN f32_abs(f32_div(FP, d)) ELSE F32_MAX

\* t_max_x, t_max_y, t_max_z starting at zero where the direction is zero
ray_t_max_zero(pos, voxel, d) ==
    IF d > 0 THEN f32_div(as_f32(voxel + 1) - pos, d)
    ELSE IF d < 0 THEN f32_div(pos - as_f32(voxel), -d)
    ELSE 0

\* the initial t_max_x, t_max_y, t_max_z
ray_t_max(pos, voxel, d) ==
    IF d > 0 THEN f32_div(as_f32(voxel + 1) - pos, d)
    ELSE IF d < 0 THEN f32_div(pos - as_f32(voxel), -d)
    ELSE F32_MAX

\* the hit test of raycast_voxel taking an absent voxel for a solid one
ray_is_solid_absent(w, v) ==
    World_get_voxel(w, v[1], v[2], v[3]) # Some("Air")

\* the hit test of raycast_voxel: the voxel is present and not Air
ray_is_solid(w, v) ==
    LET got == World_get_voxel(w, v[1], v[2], v[3])
    IN  got # None /\ got[1] # "Air"

\* the range test of raycast_voxel's loop, leaving at the range itself
ray_out_of_range_at(distance, max_distance) == distance >= max_distance

\* the range test of a loop that only its ceiling ends
ray_out_of_range_never(distance, max_distance) == FALSE

\* the range test that ends raycast_voxel's loop
ray_out_of_range(distance, max_distance) == distance > max_distance

\* the normal raycast_voxel starts with
ray_first_normal == <<0, 0, 0>>

\* a normal along the step that entered the voxel
ray_normal_forward(step) == step

\* the component of last_normal on the axis stepped along
ray_normal(step) == -step

\* one pass of the body of raycast_voxel's loop.  st holds voxel, t_max,
\* last_normal and distance, visited, the voxels tested so far, and entered,
\* the distance at which each was entered; st.done says that the loop was
\* left, by the return of a hit or by the break, and a pass after that
\* changes nothing
ray_iteration(w, direction, max_distance, st) ==
    IF st.done THEN st
    ELSE
      LET visited == Append(st.visited, st.voxel)
          entered == Append(st.entered, st.distance)
      IN
      IF ray_is_solid(w, st.voxel)
      THEN [st EXCEPT !.done = TRUE,
                      !.ret = Some([position |-> st.voxel, normal |-> st.last_normal,
                                    distance |-> st.distance]),
                      !.visited = visited, !.entered = entered]
      ELSE
        LET step == <<ray_step(direction[1]), ray_step(direction[2]), ray_step(direction[3])>>
            t_delta == <<ray_t_delta(direction[1]), ray_t_delta(direction[2]),
                         ray_t_delta(direction[3])>>
            t == st.t_max
            v == st.voxel
            next ==
                IF t[1] < t[2] /\ t[1] < t[3]
                THEN [st EXCEPT !.voxel = <<v[1] + step[1], v[2], v[3]>>,
                                !.distance = t[1],
                                !.t_max = <<f32_add(t[1], t_delta[1]), t[2], t[3]>>,
                                !.last_normal = <<ray_normal(step[1]), 0, 0>>,
                                !.visited = visited, !.entered = entered]
                ELSE IF t[2] < t[3]
                THEN [st EXCEPT !.voxel = <<v[1], v[2] + step[2], v[3]>>,
                                !.distance = t[2],
                                !.t_max = <<t[1], f32_add(t[2], t_delta[2]), t[3]>>,
                                !.last_normal = <<0, ray_normal(step[2]), 0>>,
                                !.visited = visited, !.entered = entered]
                ELSE [st EXCEPT !.voxel = <<v[1], v[2], v[3] + step[3]>>,
                                !.distance = t[3],
                                !.t_max = <<t[1], t[2], f32_add(t[3], t_delta[3])>>,
                                !.last_normal = <<0, 0, ray_normal(step[3])>>,
                                !.visited = visited, !.entered = entered]
        IN  IF ray_out_of_range(next.distance, max_distance)
            THEN [next EXCEPT !.done = TRUE]
            ELSE next

\* n passes of the loop of raycast_voxel: the first half of them and, unless
\* the loop was left in these, the rest
RECURSIVE raycast_loop(_, _, _, _, _)
raycast_loop(w, direction, max_distance, st, n) ==
    IF n <= 0 THEN st
    ELSE IF n = 1 THEN ray_iteration(w, direction, max_distance, st)
    ELSE LET half == raycast_loop(w, direction, max_distance, st, n \div 2)
         IN  IF half.done THEN half
             ELSE raycast_loop(w, direction, max_distance, half, n - (n \div 2))

\* raycast_voxel: the hit or None, with the voxels it tested, the distance
\* at which each was entered and the distance on leaving the loop
raycast_voxel(w, origin, direction, max_distance) ==
    LET voxel == <<floor_i32(origin[1]), floor_i32(origin[2]), floor_i32(origin[3])>>
        t_max == <<ray_t_max(origin[1], voxel[1], direction[1]),
                   ray_t_max(origin[2], voxel[2], direction[2]),
                   ray_t_max(origin[3], voxel[3], direction[3])>>
        end == raycast_loop(w, direction, max_distance,
                            [voxel |-> voxel, t_max |-> t_max,
                             last_normal |-> ray_first_normal, distance |-> 0,
                             visited |-> << >>, entered |-> << >>,
                             done |-> FALSE, ret |-> None], RAY_STEPS)
    IN  [ret |-> end.ret, visited |-> end.visited, entered |-> end.entered,
         left |-> end.distance]

(***************************************************************************)
(* game/player.rs and PlayerController::update_velocity.  A position or a  *)
(* velocity is held in millionths (MICRO is 1.0) and a time step dt in     *)
(* hundredths of a second, so that GRAVITY * dt and velocity * dt are      *)
(* whole numbers of millionths; the sums and differences of the source are *)
(* taken as they are written, without the rounding of f32.                 *)
(***************************************************************************)
MICRO == 1000000

\* EPSILON of resolve_collisions, 0.001
EPSILON == 1000

\* GRAVITY of Player::update, -9.81
GRAVITY == -9810000

\* JUMP_STRENGTH of player_controller.rs, 7.0
JUMP_STRENGTH == 7000000

\* dt is counted in 1/DT_PER_SECOND seconds
DT_PER_SECOND == 100

\* a velocity or an acceleration times dt
mul_dt(a, dt) == (a * dt) \div DT_PER_SECOND

\* f32 floor followed by `as i32`, on millionths
floor_micro(a) == a \div MICRO

f32_min(a, b) == IF a <= b THEN a ELSE b

Player_new(position) ==
    [position |-> position, velocity |-> <<0, 0, 0>>, width |-> MICRO \div 2,
     height |-> (18 * MICRO) \div 10, is_on_ground |-> FALSE]

\* the test that makes resolve_collisions skip a cell, skipping only Air
player_skips_air_only(w, cell) ==
    World_get_voxel(w, cell[1], cell[2], cell[3]) = Some("Air")

\* the test that makes resolve_collisions skip a cell: Air or absent
player_skips(w, cell) ==
    LET got == World_get_voxel(w, cell[1], cell[2], cell[3])
    IN  got = Some("Air") \/ got = None

\* the body of resolve_collisions' loops for one cell; st.player is the
\* player so far and st.pushes lists the corrections applied so far
resolve_cell(st, w, axis, cell) ==
    IF player_skips(w, cell) THEN st
    ELSE
      LET self == st.player
          p_min_x == self.position[1] - (self.width \div 2)
          p_max_x == self.position[1] + (self.width \div 2)
          p_min_y == self.position[2] - (self.height \div 2)
          p_max_y == self.position[2] + (self.height \div 2)
          p_min_z == self.position[3] - (self.width \div 2)
          p_max_z == self.position[3] + (self.width \div 2)
          v_min_x == cell[1] * MICRO
          v_max_x == (cell[1] + 1) * MICRO
          v_min_y == cell[2] * MICRO
          v_max_y == (cell[2] + 1) * MICRO
          v_min_z == cell[3] * MICRO
          v_max_z == (cell[3] + 1) * MICRO
          x_overlap == p_min_x < v_max_x /\ p_max_x > v_min_x
          y_overlap == p_min_y < v_max_y /\ p_max_y > v_min_y
          z_overlap == p_min_z < v_max_z /\ p_max_z > v_min_z
          pen_x == f32_min(p_max_x - v_min_x, v_max_x - p_min_x)
          pen_y == f32_min(p_max_y - v_min_y, v_max_y - p_min_y)
          pen_z == f32_min(p_max_z - v_min_z, v_max_z - p_min_z)
      IN
      IF ~(x_overlap /\ y_overlap /\ z_overlap) THEN st
      ELSE
        CASE axis = "X" ->
               IF pen_x <= pen_y /\ pen_x <= pen_z
               THEN LET pen_from_right == p_max_x - v_min_x
                        pen_from_left == v_max_x - p_min_x
                        back == pen_from_right < pen_from_left
                        x == IF back THEN self.position[1] - (pen_from_right + EPSILON)
                             ELSE self.position[1] + (pen_from_left + EPSILON)
                    IN  [player |-> [self EXCEPT !.position[1] = x, !.velocity[1] = 0],
                         pushes |-> Append(st.pushes,
                                       [axis |-> "X", cell |-> cell, positive |-> ~back])]
               ELSE st
          [] axis = "Y" ->
               IF pen_y <= pen_x /\ pen_y <= pen_z
               THEN LET pen_from_top == p_max_y - v_min_y
                        pen_from_bottom == v_max_y - p_min_y
                        down == pen_from_top < pen_from_bottom
                        y == IF down THEN self.position[2] - (pen_from_top + EPSILON)
                             ELSE self.position[2] + (pen_from_bottom + EPSILON)
                    IN  [player |-> [self EXCEPT !.position[2] = y, !.velocity[2] = 0,
                                                 !.is_on_ground = IF down THEN @ ELSE TRUE],
                         pushes |-> Append(st.pushes,
                                       [axis |-> "Y", cell |-> cell, positive |-> ~down])]
               ELSE st
          [] axis = "Z" ->
               IF pen_z <= pen_x /\ pen_z <= pen_y
               THEN LET pen_from_front == p_max_z - v_min_z
                        pen_from_back == v_max_z - p_min_z
                        back == pen_from_front < pen_from_back
                        z == IF back THEN self.position[3] - (pen_from_front + EPSILON)
                             ELSE self.position[3] + (pen_from_back + EPSILON)
                    IN  [player |-> [self EXCEPT !.position[3] = z, !.velocity[3] = 0],
                         pushes |-> Append(st.pushes,
                                       [axis |-> "Z", cell |-> cell, positive |-> ~back])]
               ELSE st

\* the loops of resolve_collisions from the i-th cell on; cells lists the
\* cells in the order of the loops (z, then y, then x)
RECURSIVE resolve_cells(_, _, _, _, _)
resolve_cells(st, w, axis, cells, i) ==
    IF i > Len(cells) THEN st
    ELSE resolve_cells(resolve_cell(st, w, axis, cells[i]), w, axis, cells, i + 1)

\* resolve_collisions: the cell ranges are taken from the position on entry
resolve_collisions(st, w, axis) ==
    LET self == st.player
        min_x_voxel == floor_micro(self.position[1] - (self.width \div 2))
        max_x_voxel == floor_micro(self.position[1] + (self.width \div 2))
        min_y_voxel == floor_micro(self.position[2] - (self.height \div 2))
        max_y_voxel == floor_micro(self.position[2] + (self.height \div 2))
        min_z_voxel == floor_micro(self.position[3] - (self.width \div 2))
        max_z_voxel == floor_micro(self.position[3] + (self.width \div 2))
        nx == max_x_voxel - min_x_voxel + 1
        ny == max_y_voxel - min_y_voxel + 1
        nz == max_z_voxel - min_z_voxel + 1
        cells == [i \in 1..(nx * ny * nz) |->
                     <<min_x_voxel + ((i - 1) % nx),
                       min_y_voxel + (((i - 1) \div nx) % ny),
                       min_z_voxel + ((i - 1) \div (nx * ny))>>]
    IN  resolve_cells(st, w, axis, cells, 1)

\* Player::update adding the whole displacement before any resolution
Player_update_at_once(self, w, dt) ==
    LET velocity == [self.velocity EXCEPT ![2] = @ + mul_dt(GRAVITY, dt)]
        desired_movement == <<mul_dt(velocity[1], dt), mul_dt(velocity[2], dt),
                              mul_dt(velocity[3], dt)>>
        s0 == [player |-> [self EXCEPT !.is_on_ground = FALSE,
                                       !.velocity = velocity,
                                       !.position = <<@[1] + desired_movement[1],
                                                      @[2] + desired_movement[2],
                                                      @[3] + desired_movement[3]>>],
               pushes |-> << >>]
        s1 == resolve_collisions(s0, w, "X")
        s2 == resolve_collisions(s1, w, "Y")
        s3 == resolve_collisions(s2, w, "Z")
    IN  [player |-> s3.player, pushes |-> s3.pushes,
         passes |-> <<[axis |-> "X", entry |-> s0.player, exit |-> s1.player],
                      [axis |-> "Y", entry |-> s1.player, exit |-> s2.player],
                      [axis |-> "Z", entry |-> s2.player, exit |-> s3.player]>>]

\* Player::update without the reset of is_on_ground
Player_update_no_reset(self, w, dt) ==
    LET velocity == [self.velocity EXCEPT ![2] = @ + mul_dt(GRAVITY, dt)]
        desired_movement == <<mul_dt(velocity[1], dt), mul_dt(velocity[2], dt),
                              mul_dt(velocity[3], dt)>>
        s0 == [player |-> [self EXCEPT !.velocity = velocity,
                                       !.position[1] = @ + desired_movement[1]],
               pushes |-> << >>]
        s1 == resolve_collisions(s0, w, "X")
        y0 == [s1 EXCEPT !.player.position[2] = @ + desired_movement[2]]
        s2 == resolve_collisions(y0, w, "Y")
        z0 == [s2 EXCEPT !.player.position[3] = @ + desired_movement[3]]
        s3 == resolve_collisions(z0, w, "Z")
    IN  [player |-> s3.player, pushes |-> s3.pushes,
         passes |-> <<[axis |-> "X", entry |-> s0.player, exit |-> s1.player],
                      [axis |-> "Y", entry |-> y0.player, exit |-> s2.player],
                      [axis |-> "Z", entry |-> z0.player, exit |-> s3.player]>>]

\* Player::update: the player after the step, the corrections applied, and
\* the player on entry to and on exit from each call of resolve_collisions
Player_update(self, w, dt) ==
    LET velocity == [self.velocity EXCEPT ![2] = @ + mul_dt(GRAVITY, dt)]
        desired_movement == <<mul_dt(velocity[1], dt), mul_dt(velocity[2], dt),
                              mul_dt(velocity[3], dt)>>
        s0 == [player |-> [self EXCEPT !.is_on_ground = FALSE,
                                       !.velocity = velocity,
                                       !.position[1] = @ + desired_movement[1]],
               pushes |-> << >>]
        s1 == resolve_collisions(s0, w, "X")
        y0 == [s1 EXCEPT !.player.position[2] = @ + desired_movement[2]]
        s2 == resolve_collisions(y0, w, "Y")
        z0 == [s2 EXCEPT !.player.position[3] = @ + desired_movement[3]]
        s3 == resolve_collisions(z0, w, "Z")
    IN  [player |-> s3.player, pushes |-> s3.pushes,
         passes |-> <<[axis |-> "X", entry |-> s0.player, exit |-> s1.player],
                      [axis |-> "Y", entry |-> y0.player, exit |-> s2.player],
                      [axis |-> "Z", entry |-> z0.player, exit |-> s3.player]>>]

\* PlayerController::update_velocity: horizontal_velocity is the normalised
\* move direction times move_speed; a jump needs the grounded flag
update_velocity(self, horizontal_velocity, is_up_pressed) ==
    LET vertical_velocity == IF is_up_pressed /\ self.is_on_ground THEN JUMP_STRENGTH
                             ELSE self.velocity[2]
    IN  [self EXCEPT !.velocity = <<horizontal_velocity[1], vertical_velocity,
                                    horizontal_velocity[2]>>]

(***************************************************************************)
(* lib.rs: the fields of State that block selection and placement use.     *)
(***************************************************************************)
\* State::new: nothing selected, Stone held
State_new ==
    [selected_block |-> None, held_block_type |-> "Stone", ops |-> 0, op |-> "new",
     cell |-> <<0, 0, 0>>, placed |-> FALSE, elapsed |-> 0, direction |-> <<0, 0, 0>>]

\* is_position_inside_player with faces that touch counted as an overlap
is_position_inside_player_touching(self, x, y, z) ==
    LET block_min_x == x * MICRO
        block_max_x == (x + 1) * MICRO
        block_min_y == y * MICRO
        block_max_y == (y + 1) * MICRO
        block_min_z == z * MICRO
        block_max_z == (z + 1) * MICRO
        player_min_x == self.position[1] - (self.width \div 2)
        player_max_x == self.position[1] + (self.width \div 2)
        player_min_y == self.position[2] - (self.height \div 2)
        player_max_y == self.position[2] + (self.height \div 2)
        player_min_z == self.position[3] - (self.width \div 2)
        player_max_z == self.position[3] + (self.width \div 2)
    IN  /\ block_min_x <= player_max_x
        /\ block_max_x >= player_min_x
        /\ block_min_y <= player_max_y
        /\ block_max_y >= player_min_y
        /\ block_min_z <= player_max_z
        /\ block_max_z >= player_min_z

\* State::is_position_inside_player, self being the Player of the State
is_position_inside_player(self, x, y, z) ==
    LET block_min_x == x * MICRO
        block_max_x == (x + 1) * MICRO
        block_min_y == y * MICRO
        block_max_y == (y + 1) * MICRO
        block_min_z == z * MICRO
        block_max_z == (z + 1) * MICRO
        player_min_x == self.position[1] - (self.width \div 2)
        player_max_x == self.position[1] + (self.width \div 2)
        player_min_y == self.position[2] - (self.height \div 2)
        player_max_y == self.position[2] + (self.height \div 2)
        player_min_z == self.position[3] - (self.width \div 2)
        player_max_z == self.position[3] + (self.width \div 2)
    IN  /\ block_min_x < player_max_x
        /\ block_max_x > player_min_x
        /\ block_min_y < player_max_y
        /\ block_max_y > player_min_y
        /\ block_min_z < player_max_z
        /\ block_max_z > player_min_z

\* the ceiling State::update puts on dt, 0.1 s
DT_MAX == 10

\* State::update taking the elapsed time as it is
clamp_dt_none(elapsed) == elapsed

\* dt = dt.min(0.1)
clamp_dt(elapsed) == f32_min(elapsed, DT_MAX)

\* the camera of State::update, 0.8 above the player, in thousandths
camera_position(self) ==
    <<self.position[1] \div (MICRO \div FP),
      (self.position[2] + (8 * MICRO) \div 10) \div (MICRO \div FP),
      self.position[3] \div (MICRO \div FP)>>

\* State::update casting the ray from the camera before the player moves
State_update_ray_first(self, w, elapsed, horizontal_velocity, is_up_pressed, direction) ==
    LET dt == clamp_dt(elapsed)
        selected == raycast_voxel(w, camera_position(self), direction, 5 * FP).ret
        moved == update_velocity(self, horizontal_velocity, is_up_pressed)
        stepped == Player_update(moved, w, dt)
    IN  [dt |-> dt, stepped |-> stepped, selected_block |-> selected]

\* State::update up to the raycast: dt, update_velocity, Player::update, the
\* camera put above the player, raycast_voxel over 5.0
State_update_step(self, w, elapsed, horizontal_velocity, is_up_pressed, direction) ==
    LET dt == clamp_dt(elapsed)
        moved == update_velocity(self, horizontal_velocity, is_up_pressed)
        stepped == Player_update(moved, w, dt)
        selected == raycast_voxel(w, camera_position(stepped.player), direction, 5 * FP).ret
    IN  [dt |-> dt, stepped |-> stepped, selected_block |-> selected]

(***************************************************************************)
(* The dirty set of World, modelled from the specification (3, 4.2): a set *)
(* of chunk coordinates; load_chunk marks the coordinate it first loads,   *)
(* set_voxel marks the owning chunk; take_dirty_chunks hands out every     *)
(* dirty coordinate once, in an order the set does not fix, and leaves the *)
(* set empty.                                                              *)
(***************************************************************************)
mark_dirty(w, pos) == [w EXCEPT !.dirty_chunks = @ \cup {pos}]

load_chunk_dirty(w, pos) ==
    IF pos \in DOMAIN w.chunks THEN World_load_chunk(w, pos)
    ELSE mark_dirty(World_load_chunk(w, pos), pos)

\* set_voxel marking the chunk only when it loads it
set_voxel_marks_on_load(w, wx, wy, wz, voxel) ==
    IF chunk_pos_of(wx, wy, wz) \in DOMAIN w.chunks
    THEN World_set_voxel(w, wx, wy, wz, voxel)
    ELSE mark_dirty(World_set_voxel(w, wx, wy, wz, voxel), chunk_pos_of(wx, wy, wz))

set_voxel_dirty(w, wx, wy, wz, voxel) ==
    mark_dirty(World_set_voxel(w, wx, wy, wz, voxel), chunk_pos_of(wx, wy, wz))

dirty_orders(w) ==
    {s \in [1..Cardinality(w.dirty_chunks) -> w.dirty_chunks] :
        \A i, j \in DOMAIN s : i # j => s[i] # s[j]}

\* a drain that hands the coordinates out and keeps them
take_dirty_chunks_keep(w) == w

take_dirty_chunks(w) == [w EXCEPT !.dirty_chunks = {}]

(***************************************************************************)
(* rendering/chunk_renderer.rs                                             *)
(***************************************************************************)
ChunkRenderer_new == [buffers |-> << >>]

\* remesh_chunk keeping the cached buffer of a chunk whose mesh is empty
remesh_chunk_keep(cr, w, pos) ==
    LET got == World_get_chunk(w, pos)
    IN  IF got # None
        THEN LET mesh == generate_mesh(got[1], pos)
             IN  IF ~is_empty(mesh)
                 THEN LET buffer == from_mesh(mesh)
                      IN  IF buffer # None
                          THEN [cr EXCEPT !.buffers = Put(@, pos, buffer[1])]
                          ELSE cr
                 ELSE cr
        ELSE cr

remesh_chunk(cr, w, pos) ==
    LET got == World_get_chunk(w, pos)
    IN  IF got # None
        THEN LET mesh == generate_mesh(got[1], pos)
             IN  IF ~is_empty(mesh)
                 THEN LET buffer == from_mesh(mesh)
                      IN  IF buffer # None
                          THEN [cr EXCEPT !.buffers = Put(@, pos, buffer[1])]
                          ELSE cr
                 ELSE [cr EXCEPT !.buffers = Remove(@, pos)]
        ELSE cr

\* the loop of ChunkRenderer::update stopping after the first coordinate
remesh_all_head(cr, w, dirty) ==
    IF dirty = << >> THEN cr ELSE remesh_chunk(cr, w, Head(dirty))

\* the loop of ChunkRenderer::update over the drained coordinates
RECURSIVE remesh_all(_, _, _)
remesh_all(cr, w, dirty) ==
    IF dirty = << >> THEN cr
    ELSE remesh_all(remesh_chunk(cr, w, Head(dirty)), w, Tail(dirty))

(***************************************************************************)
(* The inputs of the operations.                                           *)
(***************************************************************************)
\* i32::MIN and i32::MAX, the ends of the world coordinates
I32_MAX == 2147483647

I32_MIN == -I32_MAX - 1

\* Spec: the all-Air chunk (0,1,0) and the surface chunk (0,0,0) that
\* State::new loads, and an all-solid chunk with negative coordinates on the
\* three axes
LoadPositions ==
    {ChunkPos_new(0, 1, 0), ChunkPos_new(0, 0, 0), ChunkPos_new(-1, -1, -2)}

\* Spec: two cells of chunk (0,1,0), written with and without a visible
\* voxel, the cell (15,15,15) of chunk (-1,-1,-2) and the cell (0,0,0) of
\* chunk (0,0,0)
WriteInputs ==
    {<<0, 16, 0, "Stone">>, <<0, 16, 0, "Air">>, <<1, 16, 0, "Grass">>,
     <<-1, -1, -17, "Air">>, <<0, 0, 0, "Dirt">>}

\* SpecUnload: the operations on chunk (0,1,0)
UnloadPositions == {ChunkPos_new(0, 1, 0)}

UnloadWriteInputs == {<<0, 16, 0, "Stone">>, <<0, 16, 0, "Air">>, <<1, 16, 0, "Grass">>}

\* SpecWide: the coordinates -MaxWide..MaxWide and the ends of i32 on the
\* three axes at once, and the ends of the range on one axis at a time
WideVals == (-MaxWide..MaxWide) \cup {I32_MIN, I32_MAX}

WideCoords ==
    {<<v, v, v>> : v \in WideVals}
    \cup {<<v, 0, -1>> : v \in {-MaxWide, MaxWide}}
    \cup {<<-1, v, 0>> : v \in {-MaxWide, MaxWide}}
    \cup {<<0, -1, v>> : v \in {-MaxWide, MaxWide}}

WidePositions == {chunk_pos_of(c[1], c[2], c[3]) : c \in {<<v, v, v>> : v \in WideVals}}

NoPos == ChunkPos_new(0, 0, 0)

NoCoord == <<0, 0, 0>>

\* the cells SpecMesh edits: an inner cell and its upper neighbour, the
\* corner at 0 and its neighbours along x and z, the corner at 15
MeshInputs ==
    {<<c[1], c[2], c[3], "Stone">> :
        c \in {<<7, 7, 7>>, <<7, 8, 7>>, <<0, 0, 0>>, <<1, 0, 0>>, <<0, 0, 1>>, <<15, 15, 15>>}}
    \cup {<<c[1], c[2], c[3], "Air">> :
        c \in {<<7, 7, 7>>, <<7, 8, 7>>, <<0, 0, 0>>, <<1, 0, 0>>, <<0, 0, 1>>, <<15, 15, 15>>}}
    \cup {<<7, 7, 7, "Grass">>}

\* the chunks SpecFaces meshes a face of
FacePositions ==
    {ChunkPos_new(0, 0, 0), ChunkPos_new(1, -1, 0), ChunkPos_new(-2, 0, 3),
     ChunkPos_new(0, 2, -1)}

\* the cells SpecFaces meshes a face of: corners, an edge and an inner cell
FaceCells == {<<0, 0, 0>>, <<15, 15, 15>>, <<0, 15, 8>>, <<7, 3, 12>>}

\* the chunk SpecFaces sets a voxel in: Dirt above the inner cell
FaceChunk == Chunk_set_voxel(Chunk_new, 7, 4, 12, "Dirt")

\* quad, the face meshed last, before any was
NoFace ==
    [calls |-> 0, chunk_pos |-> NoPos, cell |-> <<0, 0, 0>>, direction |-> "North",
     neighbor |-> <<0, 0, 0>>, vertices |-> << >>]

\* the position of the chunk SpecMesh meshes
MeshPos == ChunkPos_new(0, 0, 0)

\* the worlds SpecRay casts rays in: Stone at (0,0,0) as the only voxel that
\* is not Air, with the chunk before it loaded and all Air, or not loaded;
\* and the terrain of chunk (0,0,0) as load_chunk generates it
RayWorlds ==
    {[World_new EXCEPT !.chunks =
         Put(Put(<< >>, ChunkPos_new(0, 0, 0), Chunk_set_voxel(Chunk_new, 0, 0, 0, "Stone")),
             ChunkPos_new(0, 0, -1), Chunk_new)],
     [World_new EXCEPT !.chunks =
         Put(<< >>, ChunkPos_new(0, 0, 0), Chunk_set_voxel(Chunk_new, 0, 0, 0, "Stone"))],
     World_load_chunk(World_new, ChunkPos_new(0, 0, 0))}

\* ray origins, in thousandths: before the Stone voxel, inside it, above it,
\* beside it in a chunk not loaded, and away from every axis through it
RayOrigins ==
    {<<500, 500, -5000>>, <<500, 500, 500>>, <<500, 2500, 500>>,
     <<-1500, 500, 250>>, <<2250, 1750, -1125>>}

\* ray directions: every component 0, 1/2 or 1 in size
RayDirections ==
    {<<x, y, z>> : x \in {-1000, -500, 0, 500, 1000},
                   y \in {-1000, -500, 0, 500, 1000},
                   z \in {-1000, -500, 0, 500, 1000}}

\* a maximum distance no ray covers in the iterations of raycast_voxel
RayFar == 200 * FP

\* maximum distances: 4.0, the 5.0 of State::update, and beyond
RayRanges == {r * FP : r \in 4..MaxRayRange} \cup {RayFar}

\* the world SpecPlayer runs in: the three chunks State::new loads, a wall
\* of two Stone voxels at x = 3, a Stone voxel overhead at (8,3,8) and one
\* on the ground at (8,1,7)
PlayerWorld ==
    World_set_voxel(
     World_set_voxel(
      World_set_voxel(
        World_set_voxel(
          World_load_chunk(
            World_load_chunk(
              World_load_chunk(World_new, ChunkPos_new(0, 1, 0)),
              ChunkPos_new(0, 0, 0)),
            ChunkPos_new(0, -1, 0)),
          3, 1, 8, "Stone"),
        3, 2, 8, "Stone"),
      8, 3, 8, "Stone"),
     8, 1, 7, "Stone")

\* player positions, in millionths.  The ground is Grass at y = 0, its top
\* face at y = 1, so a box of height 1.8 rests on it at y = 1.9: in the
\* middle of a voxel under the overhead Stone; at the edge of the loaded
\* terrain, 0.05 over the voxels at x = 0; 0.05 before the wall; with its
\* side on the line x = 9; the start of State::new; and in a chunk that is
\* not loaded, at the height of the ground
PlayerStarts ==
    {<<8500000, 1900000, 8500000>>,
     <<-200000, 1900000, 8500000>>,
     <<2700000, 1900000, 8500000>>,
     <<8750000, 1900000, 8500000>>,
     <<0, 32000000, 16000000>>,
     <<-5500000, 1500000, 8500000>>}

\* horizontal velocities update_velocity sets: none, move_speed along +x,
\* move_speed along -z
PlayerMoves == {<<0, 0>>, <<10000000, 0>>, <<0, -10000000>>}

\* time steps, in hundredths of a second: 0.02 and the cap 0.1 of State::update
PlayerSteps == {2, 10}

\* player before any step
NoPlayer ==
    [steps |-> 0, body |-> Player_new(<<0, 0, 0>>), start |-> Player_new(<<0, 0, 0>>),
     pushes |-> << >>, passes |-> << >>, horizontal_velocity |-> <<0, 0>>,
     is_up_pressed |-> FALSE, dt |-> 0]

\* ray origins in chunks that are not loaded: beside the ground, beside the
\* air above it, and past the far side of the loaded chunks
AbsentRayOrigins ==
    {<<-1500, 500, 8500>>, <<-1500, 1500, 8500>>, <<8500, 1500, 17500>>}

\* the six directions along the axes
AxisDirections ==
    {<<1000, 0, 0>>, <<-1000, 0, 0>>, <<0, 1000, 0>>, <<0, -1000, 0>>,
     <<0, 0, 1000>>, <<0, 0, -1000>>}

\* the directions the camera looks along when a block is selected: along
\* the axes, down at 45 degrees and down more steeply
LookDirections ==
    AxisDirections \cup {<<500, -500, 0>>, <<500, -1000, 0>>, <<0, -500, -500>>}

\* where the player stands at the start of SpecGame: under the Stone
\* overhead, and before the wall
GameStarts == {<<8500000, 1900000, 8500000>>, <<2700000, 1900000, 8500000>>}

\* the inputs of State::update: the time elapsed since the step before, in
\* hundredths of a second (0.5 s is a stall), the horizontal velocity and the
\* jump key of update_velocity, the direction of the camera
GameInputs ==
    {<<2, <<0, 0>>, FALSE, <<0, -1000, 0>>>>,
     <<50, <<0, 0>>, TRUE, <<1000, 0, 0>>>>,
     <<10, <<10000000, 0>>, FALSE, <<500, -1000, 0>>>>,
     <<50, <<10000000, 0>>, TRUE, <<0, -1000, 0>>>>}

\* ray before any call of raycast_voxel
NoRay ==
    [calls |-> 0, origin |-> NoCoord, direction |-> NoCoord, max_distance |-> 0,
     ret |-> None, visited |-> << >>, entered |-> << >>, left |-> 0]

\* the operation of the last step, its arguments and what it returned;
\* pending_loads and pending_writes are the chunks first loaded and the
\* coordinates written between the previous drain and this operation
Op(name, pos, coord, voxel) ==
    [op |-> name, pos |-> pos, coord |-> coord, voxel |-> voxel,
     local |-> NoCoord, was_loaded |-> FALSE, ret |-> None, drained |-> << >>,
     cached_before |-> {}, pending_loads |-> {}, pending_writes |-> {}]

(***************************************************************************)
(* The state machine.  world and chunk_renderer are the program's state;   *)
(* last, ops, written, pending_loads and pending_writes record the run.    *)
(***************************************************************************)
\* the variables World's operations and ChunkRenderer::update leave alone
aside == <<mesher, atlas, quad, ray, player, state>>

\* the variables of the runs of World and ChunkRenderer
world_vars == <<world, chunk_renderer, last, ops, written, pending_loads, pending_writes>>

Init ==
    /\ world = World_new
    /\ chunk_renderer = ChunkRenderer_new
    /\ last = Op("new", NoPos, NoCoord, "Air")
    /\ ops = 0
    /\ written = << >>
    /\ pending_loads = {}
    /\ pending_writes = {}
    /\ mesher = [ops |-> 0, chunk |-> Chunk_new, mesh |-> None, buffer |-> None,
                 cache |-> ChunkRenderer_new]
    /\ atlas = << >>
    /\ quad = NoFace
    /\ ray = NoRay
    /\ player = NoPlayer
    /\ state = State_new

load_chunk(pos) ==
    /\ world' = load_chunk_dirty(world, pos)
    /\ last' = [Op("load_chunk", pos, NoCoord, "Air") EXCEPT
                   !.was_loaded = pos \in DOMAIN world.chunks]
    /\ ops' = ops + 1
    /\ pending_loads' = IF pos \in DOMAIN world.chunks THEN pending_loads
                        ELSE pending_loads \cup {pos}
    /\ UNCHANGED <<chunk_renderer, written, pending_writes, aside>>

get_voxel(wx, wy, wz) ==
    /\ last' = [Op("get_voxel", chunk_pos_of(wx, wy, wz), <<wx, wy, wz>>, "Air") EXCEPT
                   !.local = local_of(wx, wy, wz),
                   !.was_loaded = chunk_pos_of(wx, wy, wz) \in DOMAIN world.chunks,
                   !.ret = World_get_voxel(world, wx, wy, wz)]
    /\ ops' = ops + 1
    /\ UNCHANGED <<world, chunk_renderer, written, pending_loads, pending_writes, aside>>

set_voxel(wx, wy, wz, voxel) ==
    /\ world' = set_voxel_dirty(world, wx, wy, wz, voxel)
    /\ last' = [Op("set_voxel", chunk_pos_of(wx, wy, wz), <<wx, wy, wz>>, voxel) EXCEPT
                   !.local = local_of(wx, wy, wz),
                   !.was_loaded = chunk_pos_of(wx, wy, wz) \in DOMAIN world.chunks]
    /\ ops' = ops + 1
    /\ written' = Put(written, <<wx, wy, wz>>, voxel)
    /\ pending_writes' = pending_writes \cup {<<wx, wy, wz>>}
    /\ UNCHANGED <<chunk_renderer, pending_loads, aside>>

\* ChunkRenderer::update: one drain, then remesh_chunk for each coordinate
update ==
    /\ \E dirty \in dirty_orders(world) :
        /\ world' = take_dirty_chunks(world)
        /\ chunk_renderer' = remesh_all(chunk_renderer, world', dirty)
        /\ last' = [Op("update", NoPos, NoCoord, "Air") EXCEPT
                       !.drained = dirty,
                       !.cached_before = DOMAIN chunk_renderer.buffers,
                       !.pending_loads = pending_loads,
                       !.pending_writes = pending_writes]
    /\ ops' = ops + 1
    /\ pending_loads' = {}
    /\ pending_writes' = {}
    /\ UNCHANGED <<written, aside>>

unload_chunk(pos) ==
    /\ world' = World_unload_chunk(world, pos)
    /\ last' = [Op("unload_chunk", pos, NoCoord, "Air") EXCEPT
                   !.was_loaded = pos \in DOMAIN world.chunks]
    /\ ops' = ops + 1
    /\ written' = [c \in {d \in DOMAIN written : chunk_pos_of(d[1], d[2], d[3]) # pos}
                      |-> written[c]]
    /\ UNCHANGED <<chunk_renderer, pending_loads, pending_writes, aside>>

\* Spec: load_chunk, set_voxel and ChunkRenderer::update in any order
Next ==
    \/ ops < MaxOps /\ \E pos \in LoadPositions : load_chunk(pos)
    \/ ops < MaxOps /\ \E i \in WriteInputs : set_voxel(i[1], i[2], i[3], i[4])
    \/ ops < MaxOps /\ update

Spec == Init /\ [][Next]_vars

\* SpecUnload: World::unload_chunk, which has no caller, as one more operation
NextUnload ==
    \/ ops < MaxOpsUnload /\ \E pos \in UnloadPositions : load_chunk(pos)
    \/ ops < MaxOpsUnload /\ \E i \in UnloadWriteInputs : set_voxel(i[1], i[2], i[3], i[4])
    \/ ops < MaxOpsUnload /\ update
    \/ ops < MaxOpsUnload /\ \E pos \in UnloadPositions : unload_chunk(pos)

SpecUnload == Init /\ [][NextUnload]_vars

\* SpecWide: one load_chunk or set_voxel on an empty world, over the wide
\* coordinates and every voxel type, then one get_voxel
NextWide ==
    \/ ops = 0 /\ \E pos \in WidePositions : load_chunk(pos)
    \/ ops = 0 /\ \E c \in WideCoords, voxel \in VoxelType :
                      set_voxel(c[1], c[2], c[3], voxel)
    \/ ops <= 1 /\ \E c \in WideCoords : get_voxel(c[1], c[2], c[3])

SpecWide == Init /\ [][NextWide]_vars

\* SpecMesh: a chunk edited cell by cell with Chunk::set_voxel and meshed
\* after each edit: generate_mesh, ChunkMeshBuffer::from_mesh, and
\* remesh_chunk on a world holding the chunk at MeshPos
mesh_chunk(x, y, z, voxel) ==
    LET chunk == Chunk_set_voxel(mesher.chunk, x, y, z, voxel)
        mesh == generate_mesh(chunk, MeshPos)
        w == [World_new EXCEPT !.chunks = Put(<< >>, MeshPos, chunk)]
    IN  /\ mesher' = [ops |-> mesher.ops + 1, chunk |-> chunk, mesh |-> Some(mesh),
                      buffer |-> from_mesh(mesh),
                      cache |-> remesh_chunk(mesher.cache, w, MeshPos)]
        /\ UNCHANGED <<world_vars, atlas, quad, ray, player, state>>

NextMesh ==
    \/ mesher.ops < MaxMeshOps /\ \E i \in MeshInputs : mesh_chunk(i[1], i[2], i[3], i[4])

SpecMesh == Init /\ [][NextMesh]_vars

\* SpecFaces: a voxel set in FaceChunk, and one face of it as generate_mesh
\* of the chunk at chunk_pos pushes it, if it does
mesh_face(chunk_pos, x, y, z, direction, voxel) ==
    LET chunk == Chunk_set_voxel(FaceChunk, x, y, z, voxel)
        vertices == voxel_face(chunk, chunk_pos, x, y, z, direction)
    IN  /\ vertices # << >>
        /\ quad' = [calls |-> quad.calls + 1, chunk_pos |-> chunk_pos,
                    cell |-> <<x, y, z>>, direction |-> direction,
                    neighbor |-> neighbor_pos(x, y, z, direction),
                    vertices |-> vertices]
        /\ UNCHANGED <<world_vars, mesher, atlas, ray, player, state>>

NextFaces ==
    \/ quad.calls < MaxFaces /\
           \E chunk_pos \in FacePositions, c \in FaceCells, direction \in FaceDirection,
              voxel \in {"Stone", "Grass"} :
               mesh_face(chunk_pos, c[1], c[2], c[3], direction, voxel)

SpecFaces == Init /\ [][NextFaces]_vars

\* SpecAtlas: tile lookups by (voxel type, face), one after the other; atlas
\* is the sequence of the lookups made and of what they returned
get_tile(voxel, face) ==
    /\ atlas' = Append(atlas, [voxel |-> voxel, face |-> face,
                               tile |-> get_tile_coords(voxel, face),
                               coords |-> texture_coords(voxel, face)])
    /\ UNCHANGED <<world_vars, mesher, quad, ray, player, state>>

NextAtlas ==
    \/ Len(atlas) < MaxLookups /\ \E voxel \in VoxelType, face \in FaceDirection :
                                      get_tile(voxel, face)

SpecAtlas == Init /\ [][NextAtlas]_vars

\* SpecRay: one raycast_voxel on one of RayWorlds, from the origins,
\* directions and ranges drawn; ray is the call made, what it returned and the voxels
\* it tested
InitRay ==
    /\ world \in RayWorlds
    /\ chunk_renderer = ChunkRenderer_new
    /\ last = Op("new", NoPos, NoCoord, "Air")
    /\ ops = 0
    /\ written = << >>
    /\ pending_loads = {}
    /\ pending_writes = {}
    /\ mesher = [ops |-> 0, chunk |-> Chunk_new, mesh |-> None, buffer |-> None,
                 cache |-> ChunkRenderer_new]
    /\ atlas = << >>
    /\ quad = NoFace
    /\ ray = NoRay
    /\ player = NoPlayer
    /\ state = State_new

raycast(origin, direction, max_distance) ==
    LET cast == raycast_voxel(world, origin, direction, max_distance)
    IN  /\ ray' = [calls |-> ray.calls + 1, origin |-> origin, direction |-> direction,
                   max_distance |-> max_distance, ret |-> cast.ret,
                   visited |-> cast.visited, entered |-> cast.entered,
                   left |-> cast.left]
        /\ UNCHANGED <<world_vars, mesher, atlas, quad, player, state>>

NextRay ==
    \/ ray.calls = 0 /\ \E origin \in RayOrigins, direction \in RayDirections,
                                  max_distance \in RayRanges :
                                   raycast(origin, direction, max_distance)

SpecRay == InitRay /\ [][NextRay]_vars

\* SpecPlayer: the player placed at one of PlayerStarts in PlayerWorld, then
\* steps of State::update's player part: update_velocity from the keys held,
\* then Player::update.  player.body is the Player; start, pushes and the
\* inputs record the last step
InitPlayer ==
    /\ world = PlayerWorld
    /\ chunk_renderer = ChunkRenderer_new
    /\ last = Op("new", NoPos, NoCoord, "Air")
    /\ ops = 0
    /\ written = << >>
    /\ pending_loads = {}
    /\ pending_writes = {}
    /\ mesher = [ops |-> 0, chunk |-> Chunk_new, mesh |-> None, buffer |-> None,
                 cache |-> ChunkRenderer_new]
    /\ atlas = << >>
    /\ quad = NoFace
    /\ ray = NoRay
    /\ \E position \in PlayerStarts :
           player = [NoPlayer EXCEPT !.body = Player_new(position),
                                     !.start = Player_new(position)]
    /\ state = State_new

player_update(horizontal_velocity, is_up_pressed, dt) ==
    LET moved == update_velocity(player.body, horizontal_velocity, is_up_pressed)
        stepped == Player_update(moved, world, dt)
    IN  /\ player' = [steps |-> player.steps + 1, body |-> stepped.player,
                      start |-> player.body, pushes |-> stepped.pushes,
                      passes |-> stepped.passes,
                      horizontal_velocity |-> horizontal_velocity,
                      is_up_pressed |-> is_up_pressed, dt |-> dt]
        /\ UNCHANGED <<world_vars, mesher, atlas, quad, ray, state>>

NextPlayer ==
    \/ player.steps < MaxPlayerSteps /\
           \E horizontal_velocity \in PlayerMoves, is_up_pressed \in BOOLEAN,
              dt \in PlayerSteps :
               player_update(horizontal_velocity, is_up_pressed, dt)

SpecPlayer == InitPlayer /\ [][NextPlayer]_vars

\* SpecAbsent: one step of the player and one raycast_voxel in PlayerWorld,
\* in the order of State::update, or the raycast alone; the chunks around
\* the three loaded ones are absent
NextAbsent ==
    \/ player.steps = 0 /\ ray.calls = 0 /\
           \E horizontal_velocity \in PlayerMoves, is_up_pressed \in BOOLEAN,
              dt \in PlayerSteps :
               player_update(horizontal_velocity, is_up_pressed, dt)
    \/ ray.calls = 0 /\
           \E origin \in AbsentRayOrigins, direction \in AxisDirections :
               raycast(origin, direction, 5 * FP)

SpecAbsent == InitPlayer /\ [][NextAbsent]_vars

\* SpecPlace: the player standing at one of PlayerStarts in PlayerWorld; the
\* block selection of State::update, place_block and break_block
select_block(direction) ==
    /\ state' = [state EXCEPT
                     !.selected_block =
                         raycast_voxel(world, camera_position(player.body), direction,
                                       5 * FP).ret,
                     !.ops = @ + 1, !.op = "select_block", !.placed = FALSE]
    /\ UNCHANGED <<world_vars, mesher, atlas, quad, ray, player>>

place_block ==
    /\ IF state.selected_block # None
       THEN LET hit == state.selected_block[1]
                place_x == hit.position[1] + hit.normal[1]
                place_y == hit.position[2] + hit.normal[2]
                place_z == hit.position[3] + hit.normal[3]
            IN  IF ~is_position_inside_player(player.body, place_x, place_y, place_z)
                THEN /\ world' = set_voxel_dirty(world, place_x, place_y, place_z,
                                                 state.held_block_type)
                     /\ state' = [state EXCEPT !.ops = @ + 1, !.op = "place_block",
                                      !.cell = <<place_x, place_y, place_z>>,
                                      !.placed = TRUE]
                ELSE /\ world' = world
                     /\ state' = [state EXCEPT !.ops = @ + 1, !.op = "place_block",
                                      !.cell = <<place_x, place_y, place_z>>,
                                      !.placed = FALSE]
       ELSE /\ world' = world
            /\ state' = [state EXCEPT !.ops = @ + 1, !.op = "place_block",
                             !.placed = FALSE]
    /\ UNCHANGED <<chunk_renderer, last, ops, written, pending_loads, pending_writes,
                   mesher, atlas, quad, ray, player>>

break_block ==
    /\ IF state.selected_block # None
       THEN LET hit == state.selected_block[1]
            IN  world' = set_voxel_dirty(world, hit.position[1], hit.position[2],
                                         hit.position[3], "Air")
       ELSE world' = world
    /\ state' = [state EXCEPT !.ops = @ + 1, !.op = "break_block", !.placed = FALSE]
    /\ UNCHANGED <<chunk_renderer, last, ops, written, pending_loads, pending_writes,
                   mesher, atlas, quad, ray, player>>

NextPlace ==
    \/ state.ops < MaxPlaceOps /\ \E direction \in LookDirections : select_block(direction)
    \/ state.ops < MaxPlaceOps /\ place_block
    \/ state.ops < MaxPlaceOps /\ break_block

SpecPlace == InitPlayer /\ [][NextPlace]_vars

\* SpecGame: the events of App::window_event.  RedrawRequested runs
\* State::update, a press of a mouse button runs break_block or place_block.
\* The chunks of the world are dirty at the start, as State::new leaves them
InitGame ==
    /\ world = [PlayerWorld EXCEPT !.dirty_chunks = DOMAIN PlayerWorld.chunks]
    /\ chunk_renderer = ChunkRenderer_new
    /\ last = Op("new", NoPos, NoCoord, "Air")
    /\ ops = 0
    /\ written = << >>
    /\ pending_loads = {}
    /\ pending_writes = {}
    /\ mesher = [ops |-> 0, chunk |-> Chunk_new, mesh |-> None, buffer |-> None,
                 cache |-> ChunkRenderer_new]
    /\ atlas = << >>
    /\ quad = NoFace
    /\ ray = NoRay
    /\ \E position \in GameStarts :
           player = [NoPlayer EXCEPT !.body = Player_new(position),
                                     !.start = Player_new(position)]
    /\ state = State_new

State_update(elapsed, horizontal_velocity, is_up_pressed, direction) ==
    LET step == State_update_step(player.body, world, elapsed, horizontal_velocity,
                                  is_up_pressed, direction)
    IN  /\ player' = [steps |-> player.steps + 1, body |-> step.stepped.player,
                      start |-> player.body, pushes |-> step.stepped.pushes,
                      passes |-> step.stepped.passes,
                      horizontal_velocity |-> horizontal_velocity,
                      is_up_pressed |-> is_up_pressed, dt |-> step.dt]
        /\ state' = [state EXCEPT !.selected_block = step.selected_block,
                                  !.ops = @ + 1, !.op = "update", !.placed = FALSE,
                                  !.elapsed = elapsed, !.direction = direction]
        /\ \E dirty \in dirty_orders(world) :
               /\ world' = take_dirty_chunks(world)
               /\ chunk_renderer' = remesh_all(chunk_renderer, world', dirty)
        /\ UNCHANGED <<last, ops, written, pending_loads, pending_writes,
                       mesher, atlas, quad, ray>>

NextGame ==
    \/ state.ops < MaxGameOps /\ \E i \in GameInputs : State_update(i[1], i[2], i[3], i[4])
    \/ state.ops < MaxGameOps /\ place_block
    \/ state.ops < MaxGameOps /\ break_block

SpecGame == InitGame /\ [][NextGame]_vars

(***************************************************************************)
(* Properties.  Ownership, the expected terrain and the flat cell index    *)
(* are stated here on their own, not through the operators of the model.   *)
(***************************************************************************)
\* chunk p owns the world coordinate c: p*16 <= c <= p*16 + 15 on each axis
Owns(p, c) ==
    /\ p.x * 16 <= c[1] /\ c[1] <= p.x * 16 + 15
    /\ p.y * 16 <= c[2] /\ c[2] <= p.y * 16 + 15
    /\ p.z * 16 <= c[3] /\ c[3] <= p.z * 16 + 15

\* the cell of chunk p that holds the world coordinate c
CellOf(p, c) == (c[1] - p.x * 16) + 16 * (c[2] - p.y * 16) + 256 * (c[3] - p.z * 16)

\* the generated voxel by world Y
LayerAt(wy) ==
    CASE wy <= -4 -> "Stone"
      [] wy \in {-3, -2, -1} -> "Dirt"
      [] wy = 0 -> "Grass"
      [] wy >= 1 -> "Air"

\* the generated contents of chunk p
Generated(p) == [i \in 0..4095 |-> LayerAt(p.y * 16 + ((i \div 16) % 16))]

Occurrences(seq, p) == Cardinality({i \in DOMAIN seq : seq[i] = p})

\* C1: the chunk coordinate c and the local coordinate l that get_voxel and
\* set_voxel compute for a world coordinate w satisfy c*16 + l = w and
\* 0 <= l < 16 on each of the three axes, for negative, zero and positive w.
C1_CoordinateLaw ==
    last.op \in {"get_voxel", "set_voxel"} =>
        /\ last.pos.x * 16 + last.local[1] = last.coord[1]
        /\ last.pos.y * 16 + last.local[2] = last.coord[2]
        /\ last.pos.z * 16 + last.local[3] = last.coord[3]
        /\ \A i \in 1..3 : 0 <= last.local[i] /\ last.local[i] < 16

\* a get_voxel after a set_voxel, at a coordinate negative on the three axes
\* that is no multiple of 16
C1_Witness ==
    /\ last.op = "get_voxel"
    /\ written # << >>
    /\ \A i \in 1..3 : last.coord[i] < 0 /\ last.local[i] # 0

\* C2: after set_voxel(w, t), get_voxel(w) returns t, whether or not the
\* chunk was loaded before the write, and still does after later load_chunk
\* calls and set_voxel calls on other coordinates.
C2_ReadsWhatWasWritten ==
    \A c \in DOMAIN written :
        World_get_voxel(world, c[1], c[2], c[3]) = Some(written[c])

\* a voxel written over a different generated value, then a set_voxel on
\* another cell of the same chunk, then a load_chunk of that chunk
C2_Witness ==
    /\ last.op = "load_chunk"
    /\ last.was_loaded
    /\ \E c, d \in DOMAIN written :
        /\ c # d
        /\ Owns(last.pos, c) /\ Owns(last.pos, d)
        /\ written[c] # LayerAt(c[2])

\* C3: after one or more set_voxel calls on voxels of one chunk with no drain
\* in between, the next take_dirty_chunks() result holds that chunk's
\* coordinate exactly once.
C3_DirtyExactlyOnce ==
    last.op = "update" =>
        \A c \in last.pending_writes :
            Cardinality({i \in DOMAIN last.drained : Owns(last.drained[i], c)}) = 1

\* an update after writes to two cells of one chunk
C3_Witness ==
    /\ last.op = "update"
    /\ \E c, d \in last.pending_writes :
        c # d /\ \E i \in DOMAIN last.drained :
                     Owns(last.drained[i], c) /\ Owns(last.drained[i], d)

\* C4: get_voxel(w) returns absent exactly when the chunk owning w is no key
\* of the chunk map; for a loaded chunk it returns the stored voxel, a stored
\* Air as a present Air; it returns a value for every world coordinate.
C4_AbsentIffUnloaded ==
    last.op = "get_voxel" =>
        LET owners == {p \in DOMAIN world.chunks : Owns(p, last.coord)}
        IN  /\ (last.ret = None) <=> (owners = {})
            /\ \A p \in owners : last.ret = Some(world.chunks[p][CellOf(p, last.coord)])
            /\ last.ret \in {None} \cup {Some(v) : v \in VoxelType}

\* a get_voxel of a cell that holds a written Air
C4_Witness ==
    /\ last.op = "get_voxel"
    /\ last.coord \in DOMAIN written
    /\ written[last.coord] = "Air"
    /\ LayerAt(last.coord[2]) # "Air"
    /\ last.ret = Some("Air")

\* C5: load_chunk on a loaded coordinate changes nothing: the voxels, edits
\* included, the set of loaded chunks, the buffers and the dirty set.
C5_LoadChunkIdempotent ==
    [][(last'.op = "load_chunk" /\ last'.was_loaded) => world' = world]_vars

\* a load_chunk of a loaded chunk that holds an edit and is not dirty
C5_Witness ==
    /\ last.op = "load_chunk"
    /\ last.was_loaded
    /\ last.pos \notin world.dirty_chunks
    /\ world.chunks[last.pos] # Generated(last.pos)

\* C6: the first load_chunk(pos) of an unloaded coordinate inserts a chunk
\* whose 4096 cells hold the generated voxel of their world Y (Stone below
\* -3, Dirt from -3 to -1, Grass at 0, Air above) and marks pos dirty.
C6_FirstLoadGenerates ==
    (last.op = "load_chunk" /\ ~last.was_loaded) =>
        /\ last.pos \in DOMAIN world.chunks
        /\ Cardinality(DOMAIN world.chunks[last.pos]) = 4096
        /\ \A x \in 0..15, y \in 0..15, z \in 0..15 :
               Chunk_get_voxel(world.chunks[last.pos], x, y, z)
                   = Some(LayerAt(last.pos.y * 16 + y))
        /\ \A order \in dirty_orders(world) : Occurrences(order, last.pos) = 1

\* a first load of the chunk that holds Stone and Dirt
C6_Witness ==
    /\ last.op = "load_chunk"
    /\ ~last.was_loaded
    /\ last.pos.y = -1

\* C7: set_voxel on a coordinate whose chunk is not loaded loads the chunk
\* and writes: afterwards the chunk is loaded, the target cell holds the
\* written type and every other cell of the chunk its generated value.
C7_WriteLoadsOnDemand ==
    (last.op = "set_voxel" /\ ~last.was_loaded) =>
        \E p \in DOMAIN world.chunks :
            /\ Owns(p, last.coord)
            /\ world.chunks[p] =
                   [Generated(p) EXCEPT ![CellOf(p, last.coord)] = last.voxel]

\* a write, into an unloaded chunk, of a type the generation does not give
C7_Witness ==
    /\ last.op = "set_voxel"
    /\ ~last.was_loaded
    /\ last.coord[2] < 0
    /\ last.voxel = "Grass"

\* C8: take_dirty_chunks() returns every coordinate marked since the previous
\* drain and leaves the dirty set empty; a call with no write or load since
\* the previous drain returns nothing.
C8_DrainOnce ==
    last.op = "update" =>
        /\ world.dirty_chunks = {}
        /\ \A p \in last.pending_loads : Occurrences(last.drained, p) = 1
        /\ \A c \in last.pending_writes :
               \E i \in DOMAIN last.drained : Owns(last.drained[i], c)
        /\ (last.pending_loads = {} /\ last.pending_writes = {}) => last.drained = << >>

\* an update that follows an earlier drain with no write or load in between
C8_Witness ==
    /\ last.op = "update"
    /\ last.cached_before # {}
    /\ last.pending_loads = {}
    /\ last.pending_writes = {}

\* C9: after ChunkRenderer::update, a coordinate that was dirty and is loaded
\* has cached geometry, built from the chunk as it is, if its mesh is not
\* empty, and has none if its mesh is empty.
C9_CacheFollowsMesh ==
    last.op = "update" =>
        \A i \in DOMAIN last.drained :
            LET pos == last.drained[i]
            IN  pos \in DOMAIN world.chunks =>
                    IF is_empty(generate_mesh(world.chunks[pos], pos))
                    THEN pos \notin DOMAIN chunk_renderer.buffers
                    ELSE /\ pos \in DOMAIN chunk_renderer.buffers
                         /\ chunk_renderer.buffers[pos].mesh.chunk = world.chunks[pos]

\* an update that removes the cached geometry of a chunk edited back to Air
C9_Witness ==
    /\ last.op = "update"
    /\ \E i \in DOMAIN last.drained :
        /\ last.drained[i] \in last.cached_before
        /\ last.drained[i] \in DOMAIN world.chunks
        /\ last.drained[i] \notin DOMAIN chunk_renderer.buffers

\* C10: a coordinate that was marked dirty and whose chunk is no longer in
\* World when update processes it has no cached geometry after the update.
C10_NoStaleGeometry ==
    last.op = "update" =>
        \A i \in DOMAIN last.drained :
            last.drained[i] \notin DOMAIN world.chunks =>
                last.drained[i] \notin DOMAIN chunk_renderer.buffers

\* C11: after ChunkRenderer::update following any load_chunk and set_voxel
\* calls, the coordinates with cached geometry are exactly the loaded chunks
\* holding a voxel that is not Air, and each cached entry is the mesh of the
\* chunk as it is now.
C11_NoLostNotification ==
    last.op = "update" =>
        /\ DOMAIN chunk_renderer.buffers =
               {p \in DOMAIN world.chunks :
                    \E i \in 0..4095 : world.chunks[p][i] # "Air"}
        /\ \A p \in DOMAIN chunk_renderer.buffers :
               chunk_renderer.buffers[p].mesh = [chunk |-> world.chunks[p], chunk_pos |-> p]

\* an update after a load and writes to two chunks, leaving two cached entries
\* and a loaded chunk without one
C11_Witness ==
    /\ last.op = "update"
    /\ last.pending_loads # {}
    /\ Cardinality({chunk_pos_of(c[1], c[2], c[3]) : c \in last.pending_writes}) >= 2
    /\ Cardinality(DOMAIN chunk_renderer.buffers) >= 2
    /\ DOMAIN world.chunks # DOMAIN chunk_renderer.buffers

\* C12: generate_mesh emits a face for a voxel that is not Air, in a
\* direction, exactly when the neighbour cell in that direction (along the
\* direction's normal) is outside 0..15 or holds Air; the mesh has six
\* vertices for each such pair, and 36 for one Stone voxel at an inner cell
\* with Air all around.
C12_FaceCulling ==
    mesher.mesh # None =>
        LET chunk == mesher.chunk
            Solid(x, y, z) ==
                /\ x \in 0..15 /\ y \in 0..15 /\ z \in 0..15
                /\ chunk[x + 16 * y + 256 * z] # "Air"
            Expected ==
                {f \in (0..15) \X (0..15) \X (0..15) \X FaceDirection :
                    LET n == FaceDirection_normal(f[4])
                    IN  /\ Solid(f[1], f[2], f[3])
                        /\ ~Solid(f[1] + n[1], f[2] + n[2], f[3] + n[3])}
            stones == {i \in 0..4095 : chunk[i] # "Air"}
            count == vertex_count(mesher.mesh[1])
        IN  /\ mesh_faces(mesher.mesh[1]) = Expected
            /\ count = 6 * Cardinality(Expected)
            /\ (stones = {7 + 16 * 7 + 256 * 7} /\ chunk[7 + 16 * 7 + 256 * 7] = "Stone")
                   => count = 36

\* a mesh of Stone at (0,0,0), at its neighbour (1,0,0) and at (15,15,15):
\* faces at local 0 and at local 15, and a culled pair of faces
C12_Witness ==
    /\ mesher.mesh # None
    /\ mesher.chunk[0] = "Stone"
    /\ mesher.chunk[1] = "Stone"
    /\ mesher.chunk[15 + 16 * 15 + 256 * 15] = "Stone"
    /\ <<0, 0, 0, "West">> \in mesh_faces(mesher.mesh[1])
    /\ <<0, 0, 0, "East">> \notin mesh_faces(mesher.mesh[1])
    /\ <<15, 15, 15, "Top">> \in mesh_faces(mesher.mesh[1])
    /\ vertex_count(mesher.mesh[1]) = 6 * 16

\* C13: meshing always yields a mesh value; for a chunk that is all Air the
\* mesh has zero vertices and is empty, ChunkMeshBuffer::from_mesh returns
\* none for it and remesh_chunk leaves no cached geometry for the chunk.
C13_AllAirMeshEmpty ==
    mesher.ops > 0 =>
        /\ mesher.mesh # None
        /\ (\A i \in 0..4095 : mesher.chunk[i] = "Air") =>
               /\ mesh_faces(mesher.mesh[1]) = {}
               /\ vertex_count(mesher.mesh[1]) = 0
               /\ is_empty(mesher.mesh[1])
               /\ mesher.buffer = None
               /\ MeshPos \notin DOMAIN mesher.cache.buffers

\* a chunk meshed as all Air after every voxel set in it was set back to Air
C13_Witness ==
    /\ mesher.ops >= 2
    /\ mesher.mesh # None
    /\ \A i \in 0..4095 : mesher.chunk[i] = "Air"
    /\ mesher.buffer = None

\* C14: of any two tile lookups, Grass Top and Grass Bottom give different
\* tiles; Grass Bottom gives the tile of Dirt on any face; two lookups of
\* Dirt, or of Stone, give the same tile whatever the faces; two side faces
\* of Grass give the same tile, which is neither the Top nor the Bottom tile.
\* VoxelType::texture_coords gives the same tile as the atlas.
C14_AtlasTiles ==
    \A i \in DOMAIN atlas, j \in DOMAIN atlas :
        LET a == atlas[i]
            b == atlas[j]
            Side == {"North", "South", "East", "West"}
        IN  /\ a.coords = a.tile
            /\ (a.voxel = "Grass" /\ a.face = "Top" /\ b.voxel = "Grass" /\ b.face = "Bottom")
                   => a.tile # b.tile
            /\ (a.voxel = "Grass" /\ a.face = "Bottom" /\ b.voxel = "Dirt")
                   => a.tile = b.tile
            /\ (a.voxel = "Dirt" /\ b.voxel = "Dirt") => a.tile = b.tile
            /\ (a.voxel = "Stone" /\ b.voxel = "Stone") => a.tile = b.tile
            /\ (a.voxel = "Grass" /\ b.voxel = "Grass" /\ a.face \in Side /\ b.face \in Side)
                   => a.tile = b.tile
            /\ (a.voxel = "Grass" /\ b.voxel = "Grass" /\ a.face \in Side
                    /\ b.face \in {"Top", "Bottom"})
                   => a.tile # b.tile

\* a lookup of a side face of Grass followed by one of its Top face
C14_Witness ==
    /\ Len(atlas) = 2
    /\ atlas[1].voxel = "Grass" /\ atlas[1].face = "West"
    /\ atlas[2].voxel = "Grass" /\ atlas[2].face = "Top"
    /\ atlas[1].tile = <<0, 0>>
    /\ atlas[2].tile = <<0, 1>>

\* C15: in a world whose only voxel that is not Air is Stone at (0,0,0),
\* raycast_voxel from (0.5, 0.5, -5) along (0,0,1) returns a hit at (0,0,0)
\* with normal (0,0,-1) and distance 5.0 when the maximum distance is at
\* least 5, and no hit when it is 4.0.
C15_RaycastHit ==
    (/\ ray.calls > 0
     /\ ray.origin = <<500, 500, -5000>>
     /\ ray.direction = <<0, 0, 1000>>
     /\ ChunkPos_new(0, 0, 0) \in DOMAIN world.chunks
     /\ world.chunks[ChunkPos_new(0, 0, 0)][0] = "Stone"
     /\ \A p \in DOMAIN world.chunks : \A i \in 0..4095 :
            world.chunks[p][i] # "Air" => (p = ChunkPos_new(0, 0, 0) /\ i = 0))
    => /\ ray.max_distance >= 5000 =>
              ray.ret = Some([position |-> <<0, 0, 0>>, normal |-> <<0, 0, -1>>,
                              distance |-> 5000])
       /\ ray.max_distance = 4000 => ray.ret = None

\* the ray of C15 with maximum distance 5.0, hitting the Stone voxel
C15_Witness ==
    /\ ray.calls > 0
    /\ ray.origin = <<500, 500, -5000>>
    /\ ray.direction = <<0, 0, 1000>>
    /\ ray.max_distance = 5000
    /\ ChunkPos_new(0, 0, -1) \notin DOMAIN world.chunks
    /\ ray.ret # None
    /\ ray.ret[1].position = <<0, 0, 0>>
    /\ ray.ret[1].distance = 5000
    /\ Len(ray.visited) = 6

\* C16: every hit raycast_voxel returns has a normal with one component 1 or
\* -1 and the other two 0.
C16_UnitNormal ==
    ray.ret # None =>
        ray.ret[1].normal \in {<<1, 0, 0>>, <<-1, 0, 0>>, <<0, 1, 0>>, <<0, -1, 0>>,
                               <<0, 0, 1>>, <<0, 0, -1>>}

\* a solid voxel right under the box b, whose top face is the box's bottom
\* face and which the box overlaps on x and z
RestsOnSolid(b) ==
    LET p_min_x == b.position[1] - 250000
        p_max_x == b.position[1] + 250000
        p_min_y == b.position[2] - 900000
        p_min_z == b.position[3] - 250000
        p_max_z == b.position[3] + 250000
    IN  /\ p_min_y % 1000000 = 0
        /\ \E x \in (p_min_x \div 1000000)..(p_max_x \div 1000000),
              z \in (p_min_z \div 1000000)..(p_max_z \div 1000000) :
               /\ p_min_x < (x + 1) * 1000000 /\ p_max_x > x * 1000000
               /\ p_min_z < (z + 1) * 1000000 /\ p_max_z > z * 1000000
               /\ World_get_voxel(world, x, (p_min_y \div 1000000) - 1, z)
                      \in {Some("Grass"), Some("Dirt"), Some("Stone")}

\* C18: a player box resting on the top face of a solid voxel, with zero
\* velocity and no key held, has after one Player::update vertical velocity
\* 0, is_on_ground true and a vertical position within 0.001 of the
\* starting one.
C18_RestingStaysGrounded ==
    (/\ player.steps > 0
     /\ RestsOnSolid(player.start)
     /\ player.start.velocity = <<0, 0, 0>>
     /\ player.horizontal_velocity = <<0, 0>>
     /\ ~player.is_up_pressed)
    => /\ player.body.velocity[2] = 0
       /\ player.body.is_on_ground
       /\ player.body.position[2] - player.start.position[2] \in -1000..1000

\* C20: after a Player::update step is_on_ground is true exactly when the
\* step's Y resolution applied an upward push; X and Z pushes and downward Y
\* pushes leave it false, and the value of the step before does not carry.
C20_GroundedIffPushedUp ==
    player.steps > 0 =>
        (player.body.is_on_ground <=>
            \E i \in DOMAIN player.pushes :
                player.pushes[i].axis = "Y" /\ player.pushes[i].positive)

\* a step that starts grounded, is pushed down by the Stone overhead and
\* ends with is_on_ground false
C20_Witness ==
    /\ player.steps > 0
    /\ player.start.is_on_ground
    /\ ~player.body.is_on_ground
    /\ \E i \in DOMAIN player.pushes :
           player.pushes[i].axis = "Y" /\ ~player.pushes[i].positive

\* the chunk owning world coordinate c is loaded
Loaded(c) == \E p \in DOMAIN world.chunks : Owns(p, c)

\* C17: absent voxels are not solid.  raycast_voxel returns no hit at a
\* coordinate whose chunk is not loaded and goes on past it; no correction
\* of Player::update is due to a cell whose chunk is not loaded, and a box
\* that stays among cells of chunks not loaded moves by velocity * dt with
\* its velocity changed by gravity alone.
C17_AbsentIsNotSolid ==
    /\ ray.calls > 0 =>
          /\ \A k \in DOMAIN ray.visited :
                 ~Loaded(ray.visited[k]) =>
                     /\ ~(ray.ret # None /\ ray.ret[1].position = ray.visited[k])
                     /\ k = Len(ray.visited) => ray.ret = None
          /\ ray.ret # None => Loaded(ray.ret[1].position)
    /\ player.steps > 0 =>
          LET s == player.start
              velocity == <<player.horizontal_velocity[1],
                            s.velocity[2] + (GRAVITY * player.dt) \div 100,
                            player.horizontal_velocity[2]>>
              free == <<s.position[1] + (velocity[1] * player.dt) \div 100,
                        s.position[2] + (velocity[2] * player.dt) \div 100,
                        s.position[3] + (velocity[3] * player.dt) \div 100>>
              lo(a, b, half) == ((IF a < b THEN a ELSE b) - half) \div 1000000
              hi(a, b, half) == ((IF a < b THEN b ELSE a) + half) \div 1000000
              swept == {<<x, y, z>> :
                          x \in lo(s.position[1], free[1], 250000)..hi(s.position[1], free[1], 250000),
                          y \in lo(s.position[2], free[2], 900000)..hi(s.position[2], free[2], 900000),
                          z \in lo(s.position[3], free[3], 250000)..hi(s.position[3], free[3], 250000)}
          IN  /\ \A i \in DOMAIN player.pushes : Loaded(player.pushes[i].cell)
              /\ (\A c \in swept : ~Loaded(c)) =>
                     /\ player.body.position = free
                     /\ player.body.velocity = velocity
                     /\ player.pushes = << >>

\* a box falling at the height of the ground in a chunk that is not loaded,
\* then a ray that crosses cells of that chunk and hits the ground beyond
C17_Witness ==
    /\ player.steps > 0
    /\ player.start.position = <<-5500000, 1500000, 8500000>>
    /\ player.body.velocity[2] < 0
    /\ player.body.position[2] < player.start.position[2]
    /\ ray.calls > 0
    /\ ray.ret # None
    /\ Len(ray.visited) >= 3
    /\ ~Loaded(ray.visited[1])
    /\ ~Loaded(ray.visited[2])

\* C19: place_block writes the held block type at hit.position + hit.normal
\* exactly when a block is selected and that unit cell does not overlap the
\* player's box (faces that only touch do not overlap); otherwise World is
\* left unchanged.
C19_PlaceUnlessInsidePlayer ==
    [][(state'.op = "place_block" /\ state'.ops = state.ops + 1) =>
          IF state.selected_block = None THEN world' = world
          ELSE LET hit == state.selected_block[1]
                   c == <<hit.position[1] + hit.normal[1], hit.position[2] + hit.normal[2],
                          hit.position[3] + hit.normal[3]>>
                   b == player.body.position
                   overlaps ==
                       /\ c[1] * 1000000 < b[1] + 250000 /\ (c[1] + 1) * 1000000 > b[1] - 250000
                       /\ c[2] * 1000000 < b[2] + 900000 /\ (c[2] + 1) * 1000000 > b[2] - 900000
                       /\ c[3] * 1000000 < b[3] + 250000 /\ (c[3] + 1) * 1000000 > b[3] - 250000
               IN  IF overlaps THEN world' = world
                   ELSE /\ World_get_voxel(world', c[1], c[2], c[3])
                               = Some(state.held_block_type)
                        /\ \A p \in DOMAIN world.chunks :
                               ~Owns(p, c) => world'.chunks[p] = world.chunks[p]
                        /\ \A p \in DOMAIN world.chunks :
                               Owns(p, c) =>
                                   \A i \in 0..4095 :
                                       i # CellOf(p, c) =>
                                           world'.chunks[p][i] = world.chunks[p][i]
       ]_vars

\* a block placed in the cell (9,1,8), whose face x = 9 touches the side of
\* the player's box
C19_Witness ==
    /\ state.op = "place_block"
    /\ state.placed
    /\ state.cell = <<9, 1, 8>>
    /\ player.body.position = <<8750000, 1900000, 8500000>>
    /\ World_get_voxel(world, 9, 1, 8) = Some("Stone")

\* the box of player b overlaps the unit cell c
BoxOverlaps(b, c) ==
    /\ c[1] * 1000000 < b.position[1] + 250000 /\ (c[1] + 1) * 1000000 > b.position[1] - 250000
    /\ c[2] * 1000000 < b.position[2] + 900000 /\ (c[2] + 1) * 1000000 > b.position[2] - 900000
    /\ c[3] * 1000000 < b.position[3] + 250000 /\ (c[3] + 1) * 1000000 > b.position[3] - 250000

\* the cells around the box of player b
CellsAround(b) ==
    {<<x, y, z>> :
        x \in ((b.position[1] - 250000) \div 1000000)..((b.position[1] + 250000) \div 1000000),
        y \in ((b.position[2] - 900000) \div 1000000)..((b.position[2] + 900000) \div 1000000),
        z \in ((b.position[3] - 250000) \div 1000000)..((b.position[3] + 250000) \div 1000000)}

\* the solid voxels the box of player b overlaps
SolidOverlapped(b) ==
    {c \in CellsAround(b) :
        /\ BoxOverlaps(b, c)
        /\ World_get_voxel(world, c[1], c[2], c[3]) \in {Some("Grass"), Some("Dirt"), Some("Stone")}}

\* half of the box's extent along axis number a
HalfExtent(a) == IF a = 2 THEN 900000 ELSE 250000

\* C21: when the box on entry to the resolution of an axis overlaps a solid
\* voxel, the player is pushed out along that axis and that axis's velocity
\* is zero afterwards; overlapping one solid voxel only, the push is to the
\* side of the smaller penetration, by that depth plus 0.001.
C21_OverlapIsPushedOut ==
    \A i \in DOMAIN player.passes :
        LET pass == player.passes[i]
            a == i
            hit == SolidOverlapped(pass.entry)
        IN  hit # {} =>
              /\ pass.exit.velocity[a] = 0
              /\ pass.exit.position[a] # pass.entry.position[a]
              /\ \A c \in hit :
                     hit = {c} =>
                         LET pen_max == pass.entry.position[a] + HalfExtent(a) - c[a] * 1000000
                             pen_min == (c[a] + 1) * 1000000
                                            - (pass.entry.position[a] - HalfExtent(a))
                         IN  pass.exit.position[a] =
                                 IF pen_max < pen_min
                                 THEN pass.entry.position[a] - (pen_max + 1000)
                                 ELSE pass.entry.position[a] + (pen_min + 1000)

\* C22: Player::update moves and resolves one axis at a time, X, then Y,
\* then Z: each resolution starts from the result of the one before with
\* its own axis's displacement added, and changes only its own axis's
\* position and velocity components, and is_on_ground for Y.
C22_AxisByAxis ==
    player.steps > 0 =>
        LET s == player.start
            velocity == <<player.horizontal_velocity[1],
                          (IF player.is_up_pressed /\ s.is_on_ground THEN 7000000
                           ELSE s.velocity[2]) + (GRAVITY * player.dt) \div 100,
                          player.horizontal_velocity[2]>>
            d == [a \in 1..3 |-> (velocity[a] * player.dt) \div 100]
            before(a) == IF a = 1 THEN [s EXCEPT !.velocity = velocity, !.is_on_ground = FALSE]
                         ELSE player.passes[a - 1].exit
        IN  /\ Len(player.passes) = 3
            /\ player.passes[1].axis = "X"
            /\ player.passes[2].axis = "Y"
            /\ player.passes[3].axis = "Z"
            /\ player.body = player.passes[3].exit
            /\ \A a \in 1..3 :
                   LET pass == player.passes[a]
                   IN  /\ pass.entry = [before(a) EXCEPT !.position[a] = @ + d[a]]
                       /\ \A o \in (1..3) \ {a} :
                              /\ pass.exit.position[o] = pass.entry.position[o]
                              /\ pass.exit.velocity[o] = pass.entry.velocity[o]
                       /\ a # 2 => pass.exit.is_on_ground = pass.entry.is_on_ground
                       /\ pass.exit.width = pass.entry.width
                       /\ pass.exit.height = pass.entry.height

\* a step that walks into the wall and falls onto the ground: the X
\* resolution pushes back, then the Y resolution pushes up
C22_Witness ==
    /\ player.steps > 0
    /\ player.passes[1].exit.position[1] # player.passes[1].entry.position[1]
    /\ player.passes[2].exit.position[2] # player.passes[2].entry.position[2]
    /\ player.passes[2].entry.position[2] # player.start.position[2]
    /\ player.body.is_on_ground

\* C29: a player box that overlaps no solid voxel before Player::update
\* overlaps none after it.
C29_NoResidualPenetration ==
    (player.steps > 0 /\ SolidOverlapped(player.start) = {})
        => SolidOverlapped(player.body) = {}

\* C23: the dt of a step is the elapsed time capped at 0.1 s, so gravity
\* changes the vertical velocity by at most 9.81 * 0.1 in one step.
C23_StepTimeCapped ==
    state.op = "update" =>
        LET before == IF player.is_up_pressed /\ player.start.is_on_ground THEN 7000000
                      ELSE player.start.velocity[2]
            change == player.passes[1].entry.velocity[2] - before
        IN  /\ player.dt <= 10
            /\ player.dt = IF state.elapsed < 10 THEN state.elapsed ELSE 10
            /\ change \in -981000..0
            /\ change = -98100 * player.dt

\* a step after a stall of 0.5 s, run with dt = 0.1
C23_Witness ==
    /\ state.op = "update"
    /\ state.elapsed = 50
    /\ player.dt = 10
    /\ player.passes[1].entry.velocity[2] - player.start.velocity[2] = -981000

\* the voxels differ by one on one axis and not at all on the others
Adjacent(a, b) ==
    \E axis \in 1..3 :
        /\ b[axis] - a[axis] \in {-1, 1}
        /\ \A other \in (1..3) \ {axis} : b[other] = a[other]

\* C24: a hit is the first voxel in the order visited that is present and
\* not Air; each voxel visited is next to the one before along one axis;
\* the normal of a hit that is not at the start leads back to the voxel
\* visited before it.
C24_FirstSolidInOrder ==
    ray.calls > 0 =>
        LET n == Len(ray.visited)
        IN  /\ \A k \in 1..(n - 1) :
                   /\ ~ray_is_solid(world, ray.visited[k])
                   /\ Adjacent(ray.visited[k], ray.visited[k + 1])
            /\ ray.ret = None =>
                   \A k \in 1..n : ~ray_is_solid(world, ray.visited[k])
            /\ ray.ret # None =>
                   /\ n >= 1
                   /\ ray.ret[1].position = ray.visited[n]
                   /\ ray_is_solid(world, ray.visited[n])
                   /\ n > 1 =>
                          ray.visited[n - 1] =
                              <<ray.ret[1].position[1] + ray.ret[1].normal[1],
                                ray.ret[1].position[2] + ray.ret[1].normal[2],
                                ray.ret[1].position[3] + ray.ret[1].normal[3]>>

\* a hit four voxels from the start, reached on a diagonal
C24_Witness ==
    /\ ray.ret # None
    /\ Len(ray.visited) >= 4
    /\ ray.direction[1] # 0
    /\ ray.direction[3] # 0

\* C25: raycast_voxel tests at most 100 voxels; it tests none entered beyond
\* max_distance, and returns None only at the ceiling of 100 or once the
\* distance is over max_distance.
C25_BoundedTraversal ==
    ray.calls > 0 =>
        /\ Len(ray.visited) <= 100
        /\ \A k \in DOMAIN ray.entered : ray.entered[k] <= ray.max_distance
        /\ ray.ret = None =>
               \/ Len(ray.visited) = 100 /\ ray.left <= ray.max_distance
               \/ ray.left > ray.max_distance
        /\ ray.ret # None => ray.left <= ray.max_distance

\* a ray that ends at the ceiling, within its range
C25_Witness ==
    /\ ray.calls > 0
    /\ ray.ret = None
    /\ Len(ray.visited) = 100
    /\ ray.left <= ray.max_distance

\* a ray that ends over its range before the ceiling
C25_WitnessRange ==
    /\ ray.calls > 0
    /\ ray.ret = None
    /\ Len(ray.visited) < 100
    /\ ray.left > ray.max_distance

\* C26: a ray whose direction has a zero component, and a non-zero one,
\* keeps the coordinate of its start on every axis of a zero component.
C26_ZeroComponentAxisKept ==
    (ray.calls > 0 /\ ray.direction # <<0, 0, 0>>) =>
        \A axis \in 1..3 :
            ray.direction[axis] = 0 =>
                \A k \in DOMAIN ray.visited :
                    ray.visited[k][axis] = floor_i32(ray.origin[axis])

\* a ray with two zero components that crosses several voxels
C26_Witness ==
    /\ ray.calls > 0
    /\ ray.direction[1] = 0
    /\ ray.direction[2] = 0
    /\ ray.direction[3] # 0
    /\ Len(ray.visited) >= 4

\* the cross product of b - a and c - a
Cross(a, b, c) ==
    LET u == <<b[1] - a[1], b[2] - a[2], b[3] - a[3]>>
        v == <<c[1] - a[1], c[2] - a[2], c[3] - a[3]>>
    IN  <<u[2] * v[3] - u[3] * v[2], u[3] * v[1] - u[1] * v[3], u[1] * v[2] - u[2] * v[1]>>

\* C27: the six vertices of a face are two triangles whose right-hand
\* normal is the normal of the face; the normal leads from the cell to the
\* neighbour tested for culling; the vertices are the four corners of the
\* face of the unit cube on that side, at the local cell plus sixteen times
\* the chunk coordinate.
C27_FaceWindingAndPlacement ==
    quad.calls > 0 =>
        LET v == quad.vertices
            n == FaceDirection_normal(quad.direction)
            base == <<quad.cell[1] + 16 * quad.chunk_pos.x,
                      quad.cell[2] + 16 * quad.chunk_pos.y,
                      quad.cell[3] + 16 * quad.chunk_pos.z>>
        IN  /\ Len(v) = 6
            /\ Cross(v[1].position, v[2].position, v[3].position) = n
            /\ Cross(v[4].position, v[5].position, v[6].position) = n
            /\ \A i \in 1..6 : v[i].normal = n
            /\ \A axis \in 1..3 :
                   quad.neighbor[axis] =
                       IF quad.cell[axis] + n[axis] < 0 THEN USIZE_MAX
                       ELSE quad.cell[axis] + n[axis]
            /\ \A i \in 1..6 : \A axis \in 1..3 :
                   /\ v[i].position[axis] - base[axis] \in {0, 1}
                   /\ n[axis] = 1 => v[i].position[axis] - base[axis] = 1
                   /\ n[axis] = -1 => v[i].position[axis] - base[axis] = 0
            /\ Cardinality({v[i].position : i \in 1..6}) = 4

\* the West face of a cell at x = 0, in a chunk left of the origin
C27_Witness ==
    /\ quad.calls > 0
    /\ quad.direction = "West"
    /\ quad.cell[1] = 0
    /\ quad.chunk_pos.x < 0
    /\ quad.neighbor[1] = USIZE_MAX

\* C28: a step of State::update moves the player in the world as it was,
\* casts the ray from the camera of the moved player, then drains the dirty
\* set once and remeshes; it writes no voxel.  break_block and place_block
\* are steps of their own, which leave the player and the cache alone and
\* mark the chunk they write; after a step of State::update no chunk is
\* dirty and the cache holds the mesh of every loaded chunk as it is now.
C28_StepOrder ==
    [][/\ (state'.op = "update" /\ state'.ops = state.ops + 1) =>
             /\ world'.chunks = world.chunks
             /\ world'.dirty_chunks = {}
             /\ player'.body =
                    Player_update(update_velocity(player.body, player'.horizontal_velocity,
                                                  player'.is_up_pressed),
                                  world, player'.dt).player
             /\ state'.selected_block =
                    raycast_voxel(world, camera_position(player'.body), state'.direction,
                                  5000).ret
             /\ DOMAIN chunk_renderer'.buffers =
                    {p \in DOMAIN world.chunks :
                         \E i \in 0..4095 : world.chunks[p][i] # "Air"}
             /\ \A p \in DOMAIN chunk_renderer'.buffers :
                    chunk_renderer'.buffers[p].mesh =
                        [chunk |-> world.chunks[p], chunk_pos |-> p]
       /\ (state'.op \in {"place_block", "break_block"} /\ state'.ops = state.ops + 1) =>
             /\ player' = player
             /\ chunk_renderer' = chunk_renderer
             /\ state'.selected_block = state.selected_block
             /\ \A p \in DOMAIN world'.chunks :
                    (p \notin DOMAIN world.chunks \/ world'.chunks[p] # world.chunks[p])
                        => p \in world'.dirty_chunks
      ]_vars

\* a step of State::update after a block was broken or placed since the
\* step before: the chunk written is cached as it is now
C28_Witness ==
    /\ state.op = "update"
    /\ state.ops = 3
    /\ world.chunks[ChunkPos_new(0, 0, 0)] # PlayerWorld.chunks[ChunkPos_new(0, 0, 0)]
    /\ world.dirty_chunks = {}
    /\ chunk_renderer.buffers[ChunkPos_new(0, 0, 0)].mesh.chunk =
           world.chunks[ChunkPos_new(0, 0, 0)]
    /\ player.body.position # player.start.position

\* the flat indexes of the cells of a chunk
FlatIndexes == {get_chunk_index(x, y, z) : x \in 0..15, y \in 0..15, z \in 0..15}

\* C30: a set_voxel leaves every cell of the chunks loaded before as it was,
\* but the cell of the coordinate written, which holds the type written; it
\* adds no chunk but the owner of the coordinate and removes none.  The flat
\* index x + 16 y + 256 z takes 4096 values over the cells of a chunk, all of
\* them in 0..4095.
C30_WriteTouchesOneCell ==
    [][(last'.op = "set_voxel" /\ ops' = ops + 1) =>
          LET owner == CHOOSE p \in DOMAIN world'.chunks : Owns(p, last'.coord)
              cell == CellOf(owner, last'.coord)
          IN  /\ \E p \in DOMAIN world'.chunks : Owns(p, last'.coord)
              /\ DOMAIN world'.chunks = DOMAIN world.chunks \cup {owner}
              /\ world'.chunks[owner][cell] = last'.voxel
              /\ \A p \in DOMAIN world.chunks :
                     world'.chunks[p] =
                         IF p = owner THEN [world.chunks[p] EXCEPT ![cell] = world'.chunks[p][cell]]
                         ELSE world.chunks[p]
              /\ Cardinality(FlatIndexes) = 4096
              /\ FlatIndexes \subseteq 0..4095
              /\ get_chunk_index(last'.local[1], last'.local[2], last'.local[3]) = cell
      ]_vars

\* a write that changes a cell of a loaded chunk beside another loaded chunk
\* that holds an edit
C30_Witness ==
    /\ last.op = "set_voxel"
    /\ last.was_loaded
    /\ last.voxel = "Grass"
    /\ Cardinality(DOMAIN world.chunks) >= 2
    /\ \E p \in DOMAIN world.chunks : ~Owns(p, last.coord) /\ world.chunks[p] # Generated(p)

====
